---- MODULE Spec2Model ----
(***************************************************************************)
(* A model of the terrain-analysis-to-sonification pipeline:               *)
(*   - utils/raster_utils.py: generate_path_across_raster,                 *)
(*     extract_raster_along_path, create_clean_raster_for_sonification,    *)
(*     calculate_spectral_entropy;                                         *)
(*   - scripts/06_temporal_simulation.py: main and its helpers;            *)
(*   - scripts/03_create_zonal_masks.py: the combined masks and main;      *)
(*   - scripts/04_zonal_statistics.py, 05_vectorize_masks.py: main;        *)
(*   - scripts/02_compute_features.py: extract_basic_terrain_features,     *)
(*     create_shapefile_from_features and main;                            *)
(*   - scripts/01_load_and_prepare_raster.py: main;                        *)
(*   - utils/config_utils.py: ConfigManager.                               *)
(*                                                                         *)
(* Coordinates are exact: one model unit is 1/ExtentLen of the raster's    *)
(* extent, chosen so that every division the code performs on the sample  *)
(* grid, the 5% buffer and the path is exact.                              *)
(***************************************************************************)
EXTENDS Integers, Sequences, FiniteSets, TLC

VARIABLES
    \* ---- stage 6 (06_temporal_simulation.main) ----
    feature_rasters,        \* feature name -> raster found under features/
    direction,              \* args.direction
    num_points,             \* args.num_points
    pc6,                    \* position in main
    clean_feature_paths,    \* feature name -> the *_clean.tif raster written
    csvready_rasters,       \* feature name -> the *_clean_csvready.tif raster written
    path_points,            \* result of generate_path_across_raster
    time_series_paths,      \* feature name -> rows of <feature>_time_series.csv
    moving_avg_paths,       \* features that got a moving-average CSV
    combined_path,          \* rows of combined_time_series.csv, or None
    clean_time_series_paths,\* feature name -> rows of the clean time-series CSV
    clean_combined_path,    \* rows of combined_time_series_clean.csv, or None
    exit6,                  \* exit status of stage 6: "running", "0" or "1"
    error6,                 \* the exception main's handler caught, "none" if none
    \* ---- extract_raster_along_path as a function of its arguments ----
    x_raster,               \* raster_layer
    x_path,                 \* path_points
    x_csv,                  \* the CSV written, None before the call
    x_ret,                  \* the value returned, None before the call
    \* ---- the mask functions of 03_create_zonal_masks.py ----
    m_input1,               \* first input raster (TPI, or slope)
    m_input2,               \* second input raster (curvature, or roughness)
    m_threshold1,           \* configured threshold for input 1, or None
    m_threshold2,           \* configured threshold for input 2, or None
    m_call,                 \* the call made and the arguments it reached
                            \* create_combined_mask_with_gdal with, None before it
    m_mask,                 \* the pixels written to output_path, None before the call
    \* ---- stages 3, 4 and 5 run one after the other on one directory ----
    p_input_files,          \* the feature files in stage 3's --input_dir
    p_same_dir,             \* whether stage 3's --output_dir is its --input_dir
    p_files,                \* the files in stage 3's --output_dir
    p_dummy,                \* the files among them that are dummy text files
    p_branch3,              \* the branch stage 3 took: "none", "dummy" or "masks"
    p_exit3,                \* exit status of stage 3: "running", "0" or "1"
    p_existing_masks,       \* stage 4: existing_masks
    p_log4,                 \* stage 4: the error it logged before exiting, "none" if none
    p_exit4,                \* exit status of stage 4
    p_mask_paths,           \* stage 5: mask_paths
    p_log5,                 \* stage 5: the error it logged before exiting, "none" if none
    p_exit5,                \* exit status of stage 5
    \* ---- stage 2: extract_basic_terrain_features ----
    f_dem,                  \* the input DEM: whether it loads, and its pixels
    f_available,            \* the algorithm ids the processing registry knows
    f_pc,                   \* position in extract_basic_terrain_features
    f_todo,                 \* the entries of feature_algorithms still to process
    f_runs,                 \* the processing.run calls made so far
    f_files,                \* the files written below output_dir
    f_readable,             \* the feature rasters that load_raster can load
    f_output_paths,         \* output_paths
    f_entropy_error,        \* the exception caught at line 289, "none" if none
    f_feature_list,         \* the "features" of feature_list.json, None before it is written
    f_ret,                  \* the returned dictionary, None before the return
    f_env,                  \* stage 2 main: whether QGIS starts and --input exists
    f_shapefile,            \* what create_shapefile_from_features returned, None before
    f_exit,                 \* exit status of stage 2: "running", "0" or "1"
    \* ---- one call of create_clean_raster_for_sonification ----
    k_raster,               \* the raster at input_raster_path
    k_default,              \* default_value
    k_called,               \* whether the call was made
    k_clean,                \* the raster at output_raster_path, None if not written
    k_csvready,             \* the raster at *_csvready.tif, None if not written
    k_ret,                  \* the returned value: "output_raster_path" or None
    \* ---- stage 4 main: zonal statistics ----
    z_masks,                \* per mask: what is at <masks_dir>/<mask>_mask.tif
    z_features,             \* per feature: what is at <features_dir>/<feature>.tif
    z_pc,                   \* position in main
    z_todo,                 \* the entries of existing_masks still to process
    z_files,                \* the files written below output_dir
    z_all_results,          \* all_results
    z_metadata,             \* zonal_statistics_metadata.json, None before it is written
    z_exit,                 \* exit status of stage 4: "running", "0" or "1"
    \* ---- stage 1 main: load and prepare the raster ----
    l_input,                \* the file at --input
    l_epsg,                 \* args.epsg
    l_config_file,          \* the file at DEFAULT_CONFIG_PATH
    l_env,                  \* whether initialize_qgis and os.makedirs succeed
    l_pc,                   \* position in main
    l_config,               \* config, None before it is loaded
    l_target_crs_string,    \* target_crs_string
    l_warp,                 \* the gdal:warpreproject run: its mode and TARGET_CRS, None before
    l_output,               \* size in bytes of the file at --output, None if absent
    l_error,                \* why the run failed, "none" if it has not
    l_exit,                 \* exit status of stage 1: "running", "0" or "1"
    \* ---- a ConfigManager ----
    c_file,                 \* the file at config_path
    c_written,              \* the value whose JSON text the file was made from, and how
    c_constructed,          \* whether ConfigManager(config_path) has been called
    c_raised,               \* the exception the constructor raised, "none" if none
    c_config,               \* self.config
    c_call,                 \* the last call of get or get_nested, None if none
    c_result,               \* what that call returned or raised
    c_update,               \* the call of update made and what it returned, None if none
    c_saved                 \* the call of save_config made and what it did, None if none

varsT == <<feature_rasters, direction, num_points, pc6, clean_feature_paths,
           csvready_rasters, path_points, time_series_paths, moving_avg_paths,
           combined_path, clean_time_series_paths, clean_combined_path, exit6,
           error6>>
varsX == <<x_raster, x_path, x_csv, x_ret>>
varsM == <<m_input1, m_input2, m_threshold1, m_threshold2, m_call, m_mask>>
varsP == <<p_input_files, p_same_dir, p_files, p_dummy, p_branch3, p_exit3,
           p_existing_masks, p_log4, p_exit4, p_mask_paths, p_log5, p_exit5>>
varsF == <<f_dem, f_available, f_pc, f_todo, f_runs, f_files, f_readable,
           f_output_paths, f_entropy_error, f_feature_list, f_ret,
           f_env, f_shapefile, f_exit>>
varsK == <<k_raster, k_default, k_called, k_clean, k_csvready, k_ret>>
\* the state of the operations that are checked on their own
varsZ == <<z_masks, z_features, z_pc, z_todo, z_files, z_all_results, z_metadata, z_exit>>
varsL == <<l_input, l_epsg, l_config_file, l_env, l_pc, l_config, l_target_crs_string,
           l_warp, l_output, l_error, l_exit>>
varsC == <<c_file, c_written, c_constructed, c_raised, c_config, c_call, c_result,
           c_update, c_saved>>
varsOther == <<varsK, varsZ, varsL, varsC>>
vars == <<varsT, varsX, varsM, varsP, varsF, varsOther>>

-----------------------------------------------------------------------------
(* Bounds of the model *)

\* width and height, in cells, of the feature rasters of stage 6
DemPixels == 2
\* largest number of characters of the path given to get_nested
MaxPathChars == 3
\* width of the one-row raster given to create_clean_raster_for_sonification
CleanW == 3
RasterW == 2
RasterH == 2
\* number of feature rasters found by stage 6
NumFeatures == 2
\* largest --num_points
MaxPoints == 3
\* width of the one-row raster and longest path given to extract_raster_along_path
ExtractW == 3
MaxPathLen == 3
\* number of pixels of the rasters given to the mask functions, and their
\* largest pixel value
MaskPixels == 3
MaxMaskValue == 1

-----------------------------------------------------------------------------
(* Values *)

\* Values are tagged records, so that any two of them can be compared:
\* Python's None
None == [none |-> TRUE]
\* a number n
Num(n) == [num |-> n]
IsNum(v) == DOMAIN v = {"num"}
\* IEEE NaN as a pixel value
NaN == [nan |-> TRUE]
\* IEEE positive infinity as a pixel value
Inf == [inf |-> TRUE]
\* a pixel whose block cannot be read: identify() returns an invalid result
ReadError == [err |-> TRUE]
\* the NoData values a source raster may declare
NoDataValues == {Num(-9999)}

Abs(a) == IF a < 0 THEN 0 - a ELSE a
Min2(a, b) == IF a < b THEN a ELSE b
Max2(a, b) == IF a > b THEN a ELSE b
RECURSIVE Gcd(_, _)
Gcd(a, b) == IF b = 0 THEN a ELSE Gcd(b, a % b)
RECURSIVE LcmUpTo(_)
LcmUpTo(n) == IF n <= 1 THEN 1 ELSE LET l == LcmUpTo(n - 1) IN (l * n) \div Gcd(l, n)
SetMin(S) == CHOOSE a \in S : \A b \in S : a <= b
SetMax(S) == CHOOSE a \in S : \A b \in S : a >= b

\* steps = 20: points sampled in each direction by generate_path_across_raster
Steps == 20
\* the 5% buffer, 0.05 = 1 / BufferDivisor
BufferDivisor == 20

\* The raster extent in model units; every quotient below is exact.
ExtentLen == (Steps - 1) * BufferDivisor * 2 * LcmUpTo(MaxPoints - 1)
Extent == [xmin |-> ExtentLen, xmax |-> 2 * ExtentLen,
           ymin |-> ExtentLen, ymax |-> 2 * ExtentLen]

\* csv.writer / str(): the text of a value; None is written as the empty string.
EmptyText == [empty |-> TRUE]
CsvText(v) == IF v = None THEN EmptyText ELSE [text |-> v]
\* float(): the value a CSV text denotes
ParseFloat(t) == t.text

-----------------------------------------------------------------------------
(* Rasters and QgsRasterDataProvider.identify *)

\* A raster: w x h cells over Extent, its declared NoData value (or None), whether
\* the provider applies it (useSourceNoDataValue), and the stored pixel values.
CellsOf(w, h) == (0 .. w - 1) \X (0 .. h - 1)

\* np.isclose(a, b) with rtol=1e-5, atol=1e-8, for integers a, b:
\* |a - b| <= 1e-8 + 1e-5 * |b|  <=>  100000 * |a - b| <= |b|;
\* equal infinities are close, NaN is close to nothing
IsClose(a, b) ==
    IF IsNum(a) /\ IsNum(b) THEN 100000 * Abs(a.num - b.num) <= Abs(b.num)
    ELSE a = Inf /\ b = Inf

\* np.isfinite
IsFinite(a) == IsNum(a)

\* identify(QgsPointXY(x, y), IdentifyFormatValue): the result object.
\* Outside the extent, and on a NoData pixel the provider honours, band 1 maps to
\* a null QVariant (None); a failed block read gives an invalid result.
Identify(r, x, y) ==
    LET e == Extent
        inside == x >= e.xmin /\ x <= e.xmax /\ y >= e.ymin /\ y <= e.ymax
        col == ((x - e.xmin) * r.w) \div (e.xmax - e.xmin)
        row == ((e.ymax - y) * r.h) \div (e.ymax - e.ymin)
    IN  IF ~inside \/ col >= r.w \/ row >= r.h
        THEN [isValid |-> TRUE, results |-> <<None>>]
        ELSE LET v == r.cells[<<col, row>>]
             IN  IF v = ReadError
                 THEN [isValid |-> FALSE, results |-> <<>>]
                 ELSE IF r.nodata # None /\ r.useNoData /\ v = r.nodata
                      THEN [isValid |-> TRUE, results |-> <<None>>]
                      ELSE [isValid |-> TRUE, results |-> <<v>>]

\* result.isValid() and result.results() and 1 in result.results()
HasBand1(res) == res.isValid /\ res.results # <<>> /\ 1 \in DOMAIN res.results

\* Python's == on sampled values: NaN equals nothing
PyEq(a, b) == IsNum(a) /\ IsNum(b) /\ a.num = b.num

\* provider.sourceNoDataValue(1)
SourceNoDataValue(r) == r.nodata

-----------------------------------------------------------------------------
(* utils/raster_utils.py: generate_path_across_raster *)

\* points_to_sample: the Steps x Steps grid over the extent
PointsToSample ==
    { <<Extent.xmin + ((Extent.xmax - Extent.xmin) * x_idx) \div (Steps - 1),
        Extent.ymin + ((Extent.ymax - Extent.ymin) * y_idx) \div (Steps - 1)>> :
      x_idx \in 0 .. Steps - 1, y_idx \in 0 .. Steps - 1 }

\* whether a sample counts as valid data (lines 205-210)
SampleIsValid(r, p) ==
    LET result == Identify(r, p[1], p[2])
        no_data_value == SourceNoDataValue(r)
    IN  /\ HasBand1(result)
        /\ result.results[1] # None
        /\ (no_data_value = None \/ ~PyEq(result.results[1], no_data_value))

ValidSamples(r) == { p \in PointsToSample : SampleIsValid(r, p) }

\* the 5% buffer around the extent of the valid samples, clipped to the
\* raster's extent (lines 222-229)
BufferedExtent(x0, x1, y0, y1) ==
    [xmin |-> Max2(Extent.xmin, x0 - (x1 - x0) \div BufferDivisor),
     xmax |-> Min2(Extent.xmax, x1 + (x1 - x0) \div BufferDivisor),
     ymin |-> Max2(Extent.ymin, y0 - (y1 - y0) \div BufferDivisor),
     ymax |-> Min2(Extent.ymax, y1 + (y1 - y0) \div BufferDivisor)]

\* valid_data_extent after the sampling loop, the fallback and the 5% buffer
ValidDataExtent(r) ==
    LET vs == ValidSamples(r)
        valid_data_found == vs # {}
    IN  IF ~valid_data_found
        THEN Extent
        ELSE BufferedExtent(SetMin({p[1] : p \in vs}), SetMax({p[1] : p \in vs}),
                            SetMin({p[2] : p \in vs}), SetMax({p[2] : p \in vs}))

\* the point appended at loop index i (0-based) for one direction
PathPoint(v, dir, i, n) ==
    IF dir = "top_to_bottom"
    THEN <<(v.xmin + v.xmax) \div 2, v.ymax - ((v.ymax - v.ymin) * i) \div (n - 1)>>
    ELSE IF dir = "diagonal"
    THEN <<v.xmin + ((v.xmax - v.xmin) * i) \div (n - 1),
           v.ymax - ((v.ymax - v.ymin) * i) \div (n - 1)>>
    ELSE \* 'left_to_right', and any other direction
         <<v.xmin + ((v.xmax - v.xmin) * i) \div (n - 1), (v.ymin + v.ymax) \div 2>>

\* generate_path_across_raster(raster_layer, direction, num_points): the list
\* returned, or the exception raised.  With num_points = 1 the loop body divides
\* by num_points - 1 = 0 (ZeroDivisionError); range(num_points) is empty for
\* num_points <= 0.
generate_path_across_raster(r, dir, n) ==
    IF r = None
    THEN [raised |-> FALSE, points |-> <<>>]
    ELSE IF n >= 1 /\ n - 1 = 0
    THEN [raised |-> TRUE, points |-> <<>>]
    ELSE LET v == ValidDataExtent(r)
         IN  [raised |-> FALSE,
              points |-> [k \in 1 .. Max2(n, 0) |-> PathPoint(v, dir, k - 1, n)]]

-----------------------------------------------------------------------------
(* utils/raster_utils.py: extract_raster_along_path *)

\* valid_points: (i, x, y, value) for the points kept by the loop of lines 304-320
RECURSIVE ValidPoints(_, _, _)
ValidPoints(r, path, k) ==
    IF k > Len(path) THEN <<>>
    ELSE LET x == path[k][1]
             y == path[k][2]
             result == Identify(r, x, y)
             no_data_value == SourceNoDataValue(r)
             keep == /\ HasBand1(result)
                     /\ ~(\/ result.results[1] = None
                          \/ (no_data_value # None /\ PyEq(result.results[1], no_data_value)))
         IN  (IF keep
              THEN <<[i |-> k - 1, x |-> x, y |-> y, value |-> result.results[1]]>>
              ELSE <<>>) \o ValidPoints(r, path, k + 1)

\* the CSV written: header Index, X, Y, Value and one row of texts per valid point
CsvRow(vp) == [Index |-> CsvText(Num(vp.i)), X |-> CsvText(Num(vp.x)),
               Y |-> CsvText(Num(vp.y)), Value |-> CsvText(vp.value)]

\* a variant that numbers the rows it writes instead of keeping the path position
extract_raster_renumbered(r, path) ==
    LET valid_points == ValidPoints(r, path, 1)
    IN  [rows |-> [k \in 1 .. Len(valid_points) |->
                     CsvRow([valid_points[k] EXCEPT !.i = k - 1])]]

extract_raster_along_path(r, path) ==
    LET valid_points == ValidPoints(r, path, 1)
    IN  [rows |-> [k \in 1 .. Len(valid_points) |-> CsvRow(valid_points[k])]]

-----------------------------------------------------------------------------
(* utils/raster_utils.py: create_clean_raster_for_sonification *)

\* valid_mask: pixels not close to the NoData value (all pixels when none is set)
ValidMask(r) ==
    [c \in DOMAIN r.cells |->
        IF r.nodata # None THEN ~IsClose(r.cells[c], r.nodata) ELSE TRUE]

\* a variant whose '_csvready' raster keeps the NaN and infinite pixels
clean_raster_csv_keeps_nan(r, default_value) ==
    LET valid_mask == ValidMask(r)
        valid_count == Cardinality({c \in DOMAIN r.cells : valid_mask[c]})
        clean_data == [c \in DOMAIN r.cells |->
                         IF ~IsFinite(r.cells[c]) /\ valid_mask[c]
                         THEN Num(default_value) ELSE r.cells[c]]
        csv_nodata == [c \in DOMAIN r.cells |->
                         IF r.nodata # None /\ ~valid_mask[c]
                         THEN Num(default_value) ELSE r.cells[c]]
    IN  IF (\E c \in DOMAIN r.cells : r.cells[c] = ReadError) \/ valid_count = 0
        THEN None
        ELSE [clean |-> [w |-> r.w, h |-> r.h, nodata |-> r.nodata,
                         useNoData |-> r.nodata # None, cells |-> clean_data],
              csvready |-> [w |-> r.w, h |-> r.h, nodata |-> None,
                            useNoData |-> FALSE, cells |-> csv_nodata]]

\* create_clean_raster_for_sonification(input, output, default_value):
\* None when the data cannot be read or no pixel is valid; otherwise the raster
\* written to output_raster_path and the one written to *_csvready.tif.
create_clean_raster_for_sonification(r, default_value) ==
    LET valid_mask == ValidMask(r)
        valid_count == Cardinality({c \in DOMAIN r.cells : valid_mask[c]})
        clean_data == [c \in DOMAIN r.cells |->
                         IF ~IsFinite(r.cells[c]) /\ valid_mask[c]
                         THEN Num(default_value) ELSE r.cells[c]]
        csv_nodata == [c \in DOMAIN r.cells |->
                         IF r.nodata # None /\ ~valid_mask[c]
                         THEN Num(default_value) ELSE r.cells[c]]
        csv_data == [c \in DOMAIN r.cells |->
                         IF ~IsFinite(csv_nodata[c])
                         THEN Num(default_value) ELSE csv_nodata[c]]
    IN  IF (\E c \in DOMAIN r.cells : r.cells[c] = ReadError) \/ valid_count = 0
        THEN None
        ELSE [clean |-> [w |-> r.w, h |-> r.h, nodata |-> r.nodata,
                         useNoData |-> r.nodata # None, cells |-> clean_data],
              csvready |-> [w |-> r.w, h |-> r.h, nodata |-> None,
                            useNoData |-> FALSE, cells |-> csv_data]]

-----------------------------------------------------------------------------
(* scripts/06_temporal_simulation.py *)

\* extract_feature_time_series(feature_paths, path_points, output_dir): every
\* feature raster loads here, and extract_raster_along_path returns its path.
extract_feature_time_series(feature_paths, path) ==
    [f \in DOMAIN feature_paths |-> extract_raster_along_path(feature_paths[f], path)]

\* calculate_moving_averages: a <feature>_window_<n>.csv is written for the
\* features whose series is not all NaN (an empty series counts as all NaN).
\* The averages themselves are not modelled.
calculate_moving_averages(time_series) ==
    { f \in DOMAIN time_series :
        \E k \in 1 .. Len(time_series[f].rows) :
            IsNum(ParseFloat(time_series[f].rows[k].Value)) }

\* the value stored for one feature in row i (0-based) of the combined data
CombinedValue(rows, i) ==
    IF i < Len(rows)
    THEN LET value == rows[i + 1].Value
         IN  IF value = EmptyText THEN None ELSE ParseFloat(value)
    ELSE None

\* create_combined_time_series(time_series_paths, output_path): None, or the rows
\* written by the DictWriter (fieldnames Index, X, Y and one per feature).
\* Dictionaries keep insertion order: features are numbered in that order.
create_combined_time_series(time_series) ==
    LET feature_data == { f \in DOMAIN time_series : Len(time_series[f].rows) > 0 }
    IN  IF DOMAIN time_series = {} \/ feature_data = {}
        THEN None
        ELSE LET reference_feature == SetMin(feature_data)
                 reference_rows == time_series[reference_feature].rows
             IN  [fieldnames |-> feature_data,
                  rows |-> [k \in 1 .. Len(reference_rows) |->
                      [Index |-> reference_rows[k].Index,
                       X |-> reference_rows[k].X,
                       Y |-> reference_rows[k].Y,
                       values |-> [f \in feature_data |->
                            CsvText(CombinedValue(time_series[f].rows, k - 1))]]]]

\* The feature rasters stage 6 may find: each pixel holds the NoData value or a
\* value that identifies the feature and the pixel.
PixelValue(f, c) == Num(100 * f + 10 * c[2] + c[1] + 1)
FeatureRasters(f) ==
    { [w |-> RasterW, h |-> RasterH, nodata |-> nd, useNoData |-> TRUE, cells |-> cs] :
        nd \in NoDataValues,
        cs \in { g \in [CellsOf(RasterW, RasterH) -> NoDataValues \cup
                            { PixelValue(f, c) : c \in CellsOf(RasterW, RasterH) }] :
                 \A c \in CellsOf(RasterW, RasterH) :
                     g[c] \in NoDataValues \cup {PixelValue(f, c)} } }

Directions == {"left_to_right", "top_to_bottom", "diagonal"}

IdleT ==
    /\ feature_rasters = <<>> /\ direction = "left_to_right" /\ num_points = 0
    /\ pc6 = "idle" /\ clean_feature_paths = <<>> /\ csvready_rasters = <<>>
    /\ path_points = <<>> /\ time_series_paths = <<>> /\ moving_avg_paths = {}
    /\ combined_path = None /\ clean_time_series_paths = <<>>
    /\ clean_combined_path = None /\ exit6 = "running" /\ error6 = "none"

InitT ==
    /\ \E n \in 0 .. NumFeatures :
          feature_rasters \in { fr \in [1 .. n -> UNION { FeatureRasters(f) : f \in 1 .. n }] :
                                  \A f \in 1 .. n : fr[f] \in FeatureRasters(f) }
    /\ direction \in Directions
    /\ num_points \in 1 .. MaxPoints
    /\ pc6 = "start"
    /\ clean_feature_paths = <<>> /\ csvready_rasters = <<>>
    /\ path_points = <<>> /\ time_series_paths = <<>> /\ moving_avg_paths = {}
    /\ combined_path = None /\ clean_time_series_paths = <<>>
    /\ clean_combined_path = None /\ exit6 = "running" /\ error6 = "none"

\* main, lines 317-355: find the feature rasters (exit 1 without any) and create
\* the clean version of each
CreateCleanRasters ==
    /\ pc6 = "start"
    /\ IF DOMAIN feature_rasters = {}
       THEN /\ pc6' = "done" /\ exit6' = "1"
            /\ UNCHANGED <<clean_feature_paths, csvready_rasters>>
       ELSE LET made == { f \in DOMAIN feature_rasters :
                            create_clean_raster_for_sonification(feature_rasters[f], 0) # None }
            IN  /\ clean_feature_paths' =
                     [f \in made |-> create_clean_raster_for_sonification(feature_rasters[f], 0).clean]
                /\ csvready_rasters' =
                     [f \in made |-> create_clean_raster_for_sonification(feature_rasters[f], 0).csvready]
                /\ pc6' = "path" /\ UNCHANGED exit6
    /\ UNCHANGED <<feature_rasters, direction, num_points, path_points, time_series_paths,
                   moving_avg_paths, combined_path, clean_time_series_paths,
                   clean_combined_path, error6, varsX, varsM, varsP, varsF, varsOther>>

\* main, lines 357-382: the path across the first feature raster; an exception
\* is caught by main's handler, which exits with status 1
GeneratePath ==
    /\ pc6 = "path"
    /\ LET reference_layer == feature_rasters[SetMin(DOMAIN feature_rasters)]
           got == generate_path_across_raster(reference_layer, direction, num_points)
       IN  IF got.raised
           THEN /\ pc6' = "done" /\ exit6' = "1" /\ error6' = "ZeroDivisionError"
                /\ UNCHANGED path_points
           ELSE /\ path_points' = got.points /\ pc6' = "series"
                /\ UNCHANGED <<exit6, error6>>
    /\ UNCHANGED <<feature_rasters, direction, num_points, clean_feature_paths,
                   csvready_rasters, time_series_paths, moving_avg_paths, combined_path,
                   clean_time_series_paths, clean_combined_path, varsX, varsM, varsP, varsF, varsOther>>

\* main, lines 384-393
ExtractTimeSeries ==
    /\ pc6 = "series"
    /\ time_series_paths' = extract_feature_time_series(feature_rasters, path_points)
    /\ IF DOMAIN time_series_paths' = {}
       THEN pc6' = "done" /\ exit6' = "1"
       ELSE pc6' = "moving_averages" /\ UNCHANGED exit6
    /\ UNCHANGED <<feature_rasters, direction, num_points, clean_feature_paths,
                   csvready_rasters, path_points, moving_avg_paths, combined_path,
                   clean_time_series_paths, clean_combined_path, error6, varsX, varsM, varsP, varsF, varsOther>>

\* main, lines 395-400
MovingAverages ==
    /\ pc6 = "moving_averages"
    /\ moving_avg_paths' = calculate_moving_averages(time_series_paths)
    /\ pc6' = "combine"
    /\ UNCHANGED <<feature_rasters, direction, num_points, clean_feature_paths,
                   csvready_rasters, path_points, time_series_paths, combined_path,
                   clean_time_series_paths, clean_combined_path, exit6, error6, varsX, varsM, varsP, varsF, varsOther>>

\* main, lines 402-404
CombineTimeSeries ==
    /\ pc6 = "combine"
    /\ combined_path' = create_combined_time_series(time_series_paths)
    /\ pc6' = "clean_series"
    /\ UNCHANGED <<feature_rasters, direction, num_points, clean_feature_paths,
                   csvready_rasters, path_points, time_series_paths, moving_avg_paths,
                   clean_time_series_paths, clean_combined_path, exit6, error6, varsX, varsM, varsP, varsF, varsOther>>

\* main, lines 406-414: the time series of the rasters in clean_feature_paths
ExtractCleanTimeSeries ==
    /\ pc6 = "clean_series"
    /\ clean_time_series_paths' = extract_feature_time_series(clean_feature_paths, path_points)
    /\ pc6' = "clean_combine"
    /\ UNCHANGED <<feature_rasters, direction, num_points, clean_feature_paths,
                   csvready_rasters, path_points, time_series_paths, moving_avg_paths,
                   combined_path, clean_combined_path, exit6, error6, varsX, varsM, varsP, varsF, varsOther>>

\* main, lines 416-453: the clean combined CSV, the metadata, exit 0
CombineCleanTimeSeries ==
    /\ pc6 = "clean_combine"
    /\ clean_combined_path' = create_combined_time_series(clean_time_series_paths)
    /\ pc6' = "done" /\ exit6' = "0"
    /\ UNCHANGED <<feature_rasters, direction, num_points, clean_feature_paths,
                   csvready_rasters, path_points, time_series_paths, moving_avg_paths,
                   combined_path, clean_time_series_paths, error6, varsX, varsM, varsP, varsF, varsOther>>

-----------------------------------------------------------------------------
(* extract_raster_along_path applied to any raster and any path *)

\* one-row rasters whose pixels hold a value, the NoData value, NaN or fail to read
ExtractRasters ==
    { [w |-> ExtractW, h |-> 1, nodata |-> nd, useNoData |-> u, cells |-> cs] :
        nd \in NoDataValues \cup {None}, u \in BOOLEAN,
        cs \in { g \in [CellsOf(ExtractW, 1) -> NoDataValues \cup {NaN, ReadError} \cup
                            { Num(10 + c) : c \in 0 .. ExtractW - 1 }] :
                 \A c \in CellsOf(ExtractW, 1) :
                     g[c] \in NoDataValues \cup {NaN, ReadError, Num(10 + c[1])} } }

\* a point inside each pixel of such a raster, and one outside the extent
ExtractPoints ==
    { <<Extent.xmin + ((Extent.xmax - Extent.xmin) * c) \div ExtractW + 1,
        (Extent.ymin + Extent.ymax) \div 2>> : c \in 0 .. ExtractW - 1 }
    \cup { <<Extent.xmax + 1, (Extent.ymin + Extent.ymax) \div 2>> }

IdleX == x_raster = None /\ x_path = <<>> /\ x_csv = None /\ x_ret = None

InitX ==
    /\ x_raster \in { r \in ExtractRasters : r.nodata = None => ~r.useNoData }
    /\ x_path \in UNION { [1 .. n -> ExtractPoints] : n \in 0 .. MaxPathLen }
    /\ x_csv = None /\ x_ret = None

\* result_path = extract_raster_along_path(raster_layer, path_points, output_path)
ExtractAlongPath ==
    /\ x_raster # None /\ x_ret = None
    /\ x_csv' = extract_raster_along_path(x_raster, x_path)
    /\ x_ret' = [output_path |-> TRUE]
    /\ UNCHANGED <<x_raster, x_path, varsT, varsM, varsP, varsF, varsOther>>

-----------------------------------------------------------------------------
(* scripts/03_create_zonal_masks.py: the combined masks *)

\* Thresholds are kept as hundredths, so that percentiles are exact.
Hundred == 100

\* np.sort of a sequence of numbers
RECURSIVE Insert(_, _)
Insert(sorted, v) ==
    IF sorted = <<>> THEN <<v>>
    ELSE IF v <= Head(sorted) THEN <<v>> \o sorted
    ELSE <<Head(sorted)>> \o Insert(Tail(sorted), v)
RECURSIVE Sorted(_)
Sorted(seq) == IF seq = <<>> THEN <<>> ELSE Insert(Sorted(Tail(seq)), Head(seq))

\* np.percentile(values, q), linear interpolation, times Hundred: the virtual
\* index is (n - 1) * q / 100; NaN when one of the values is NaN
Percentile(values, q) ==
    LET v == Sorted([k \in 1 .. Len(values) |-> values[k].num])
        n == Len(v)
        rank == (n - 1) * q
        lo == rank \div Hundred
        frac == rank % Hundred
    IN  IF \E k \in 1 .. Len(values) : values[k] = NaN THEN NaN
        ELSE IF frac = 0
        THEN Num(Hundred * v[lo + 1])
        ELSE Num(Hundred * v[lo + 1] + frac * (v[lo + 2] - v[lo + 1]))

\* input_data[valid] as a sequence of pixel values
RECURSIVE ValidValues(_, _, _)
ValidValues(data, valid, k) ==
    IF k > Len(data) THEN <<>>
    ELSE (IF valid[k] THEN <<data[k]>> ELSE <<>>) \o ValidValues(data, valid, k + 1)

\* valid1, valid2: ~np.isclose(data, nodata), all True without a NoData value;
\* np.isclose(x, nan) is False for every x, NaN included
ValidPixels(r) ==
    [k \in 1 .. Len(r.data) |-> IF r.nodata # None THEN ~IsClose(r.data[k], r.nodata) ELSE TRUE]

\* the threshold used for one input, in hundredths or NaN (lines 175-191)
ThresholdUsed(r, threshold, percentile) ==
    IF threshold = None
    THEN LET valid_values == ValidValues(r.data, ValidPixels(r), 1)
         IN  IF Len(valid_values) > 0 THEN Percentile(valid_values, percentile) ELSE Num(0)
    ELSE Num(Hundred * threshold.num)

\* mask1, mask2: the condition applied to every pixel (lines 194-202); a
\* comparison with NaN on either side is False
ConditionMask(r, condition, threshold100) ==
    [k \in 1 .. Len(r.data) |->
        /\ IsNum(r.data[k]) /\ IsNum(threshold100)
        /\ IF condition = "greater"
           THEN Hundred * r.data[k].num > threshold100.num
           ELSE Hundred * r.data[k].num < threshold100.num]

\* create_combined_mask_with_gdal: the pixels written to output_path
create_combined_mask_with_gdal(input1, input2, threshold1, threshold2, condition1, condition2, percentile1, percentile2) ==
    LET valid1 == ValidPixels(input1)
        valid2 == ValidPixels(input2)
        mask1 == ConditionMask(input1, condition1, ThresholdUsed(input1, threshold1, percentile1))
        mask2 == ConditionMask(input2, condition2, ThresholdUsed(input2, threshold2, percentile2))
        combined_mask == [k \in 1 .. Len(input1.data) |->
                             (mask1[k] /\ mask2[k]) /\ (valid1[k] /\ valid2[k])]
    IN  [k \in 1 .. Len(input1.data) |-> IF combined_mask[k] THEN 1 ELSE 0]

\* create_mask_with_gdal (lines 47-128): the pixels written to
\* output_raster_path, None when the call returns None before writing: an
\* invalid comparison, or a threshold of None with 'greater' or 'less', which
\* raise TypeError. data == None raises nothing and is False at every pixel.
create_mask_with_gdal(input, threshold, comparison) ==
    LET no_data_mask == [k \in 1 .. Len(input.data) |->
                            IF input.nodata # None THEN IsClose(input.data[k], input.nodata)
                            ELSE FALSE]
        Compared(v) == IF comparison = "greater" THEN IsNum(v) /\ v.num > threshold.num
                       ELSE IF comparison = "less" THEN IsNum(v) /\ v.num < threshold.num
                       ELSE PyEq(v, threshold)
    IN  IF comparison \notin {"greater", "less", "equal"} THEN None
        ELSE IF threshold = None /\ comparison \in {"greater", "less"} THEN None
        ELSE [k \in 1 .. Len(input.data) |->
                 IF Compared(input.data[k]) /\ ~no_data_mask[k] THEN 1 ELSE 0]

\* the arguments create_ridge_mask, create_valley_mask and
\* create_erosion_risk_mask pass on
RidgeCall(tpi_threshold, curvature_threshold) ==
    [fn |-> "create_ridge_mask", threshold1 |-> tpi_threshold,
     threshold2 |-> curvature_threshold, condition1 |-> "greater", condition2 |-> "less",
     percentile1 |-> 75, percentile2 |-> 25]
ValleyCall(tpi_threshold, curvature_threshold) ==
    [fn |-> "create_valley_mask", threshold1 |-> tpi_threshold,
     threshold2 |-> curvature_threshold, condition1 |-> "less", condition2 |-> "greater",
     percentile1 |-> 25, percentile2 |-> 75]
ErosionRiskCall(threshold) ==
    [fn |-> "create_erosion_risk_mask", threshold1 |-> threshold, threshold2 |-> threshold,
     condition1 |-> "greater", condition2 |-> "greater", percentile1 |-> 75, percentile2 |-> 75]

RunCall(input1, input2, c) ==
    create_combined_mask_with_gdal(input1, input2, c.threshold1, c.threshold2,
                                   c.condition1, c.condition2, c.percentile1, c.percentile2)

\* the input rasters, as GetNoDataValue() and ReadAsArray() give them: no
\* NoData value, a number, NaN or infinity, and pixels holding -9999, NaN or a
\* small number
MaskRasters ==
    { [nodata |-> nd, data |-> d] :
        nd \in {None, Num(-9999), NaN, Inf},
        d \in [1 .. MaskPixels ->
                  NoDataValues \cup {NaN} \cup { Num(v) : v \in 0 .. MaxMaskValue }] }
MaskThresholds == {None, Num(1)}
Conditions == {"greater", "less"}
Comparisons == {"greater", "less", "equal", "between"}
Percentiles == {25, 75}

IdleM ==
    /\ m_input1 = None /\ m_input2 = None /\ m_threshold1 = None /\ m_threshold2 = None
    /\ m_call = None /\ m_mask = None

InitM ==
    /\ m_input1 \in MaskRasters /\ m_input2 \in MaskRasters
    /\ m_threshold1 \in MaskThresholds /\ m_threshold2 \in MaskThresholds
    /\ m_call = None /\ m_mask = None

MaskReady == m_input1 # None /\ m_call = None

\* create_ridge_mask(tpi_path, curvature_path, output_path, thresholds)
CreateRidgeMask ==
    /\ MaskReady
    /\ m_call' = RidgeCall(m_threshold1, m_threshold2)
    /\ m_mask' = RunCall(m_input1, m_input2, m_call')
    /\ UNCHANGED <<m_input1, m_input2, m_threshold1, m_threshold2, varsT, varsX, varsP, varsF, varsOther>>

\* create_valley_mask(tpi_path, curvature_path, output_path, thresholds)
CreateValleyMask ==
    /\ MaskReady
    /\ m_call' = ValleyCall(m_threshold1, m_threshold2)
    /\ m_mask' = RunCall(m_input1, m_input2, m_call')
    /\ UNCHANGED <<m_input1, m_input2, m_threshold1, m_threshold2, varsT, varsX, varsP, varsF, varsOther>>

\* create_erosion_risk_mask(slope_path, roughness_path, output_path, threshold)
CreateErosionRiskMask ==
    /\ MaskReady
    /\ m_call' = ErosionRiskCall(m_threshold1)
    /\ m_mask' = RunCall(m_input1, m_input2, m_call')
    /\ UNCHANGED <<m_input1, m_input2, m_threshold1, m_threshold2, varsT, varsX, varsP, varsF, varsOther>>

\* create_combined_mask_with_gdal called with any conditions and percentiles
CreateCombinedMask ==
    /\ MaskReady
    /\ \E c1 \in Conditions, c2 \in Conditions, p1 \in Percentiles, p2 \in Percentiles :
          m_call' = [fn |-> "create_combined_mask_with_gdal",
                     threshold1 |-> m_threshold1, threshold2 |-> m_threshold2,
                     condition1 |-> c1, condition2 |-> c2,
                     percentile1 |-> p1, percentile2 |-> p2]
    /\ m_mask' = RunCall(m_input1, m_input2, m_call')
    /\ UNCHANGED <<m_input1, m_input2, m_threshold1, m_threshold2, varsT, varsX, varsP, varsF, varsOther>>

\* create_mask_with_gdal called on the first input with any comparison
CreateMask ==
    /\ MaskReady
    /\ \E comparison \in Comparisons :
          /\ m_call' = [fn |-> "create_mask_with_gdal", threshold |-> m_threshold1,
                        comparison |-> comparison]
          /\ m_mask' = create_mask_with_gdal(m_input1, m_threshold1, comparison)
    /\ UNCHANGED <<m_input1, m_input2, m_threshold1, m_threshold2, varsT, varsX, varsP, varsF, varsOther>>

-----------------------------------------------------------------------------
(* Stage 3 main, and the mask search of stage 4 and stage 5 main *)

\* A file: its directory below the stage's directory ("" for the directory
\* itself), its name without extension, and its extension.
File(dir, name, ext) == [dir |-> dir, name |-> name, ext |-> ext]

RequiredFeatures == {"tpi", "curvature", "slope", "roughness"}

\* the places stage 3 looks for a feature raster, in the order it looks; the
\* extensions '.tiff', '.TIF' and '.TIFF' are one case, written ".tiff"
PrimaryPath(feature_name) == File("features", feature_name, ".tif")
AltExtPath(feature_name) == File("features", feature_name, ".tiff")
AltLocationPath(feature_name) == File("", feature_name, ".tif")
InputCandidates ==
    UNION { {PrimaryPath(f), AltExtPath(f), AltLocationPath(f)} : f \in RequiredFeatures }

\* feature_files after the first loop and the fallback search (lines 399-424)
FeatureFiles(files) ==
    LET found == { f \in RequiredFeatures :
                     {PrimaryPath(f), AltExtPath(f), AltLocationPath(f)} \cap files # {} }
    IN  [f \in found |->
            IF PrimaryPath(f) \in files THEN PrimaryPath(f)
            ELSE IF AltExtPath(f) \in files THEN AltExtPath(f)
            ELSE AltLocationPath(f)]

\* still_missing (line 427)
StillMissing(files) == RequiredFeatures \ DOMAIN FeatureFiles(files)

\* the dummy masks written at lines 448-463 and the metadata file of line 466
DummyMaskFiles == { File("masks", "tpi_high", ".tif"), File("masks", "curvature_high", ".tif"),
                    File("masks", "slope_high", ".tif"), File("masks", "roughness_high", ".tif") }
MaskMetadataFile == File("", "mask_metadata", ".json")

\* the masks of lines 484-514
MaskNames == {"ridge_mask", "valley_mask", "erosion_risk_mask"}
MaskFile(mask_name) == File("masks", mask_name, ".tif")

\* what the mask function and the clean step (lines 349-354) do for one mask.
\* The mask function returns None, before driver.Create or after it, when its
\* file is left behind; or it returns its path, and
\* create_clean_raster_for_sonification then writes no file (the mask does not
\* open, or the first driver.Create gives None), the clean copy only (the
\* second driver.Create gives None, or the call raises after the first), or
\* the clean copy and its _csvready copy.
MaskOutcomes == {"failed", "failed_with_file", "created", "created_clean",
                 "created_clean_csvready"}
MaskFilesOf(mask_name, outcome) ==
    (IF outcome = "failed" THEN {} ELSE {MaskFile(mask_name)})
    \cup (IF outcome \in {"created_clean", "created_clean_csvready"}
          THEN {File("sonification_masks", mask_name \o "_clean", ".tif")} ELSE {})
    \cup (IF outcome = "created_clean_csvready"
          THEN {File("sonification_masks", mask_name \o "_clean_csvready", ".tif")} ELSE {})

\* 'mask' in file.lower()
HasMaskInName(file) ==
    file.name \in MaskNames \cup {"mask_metadata"}
                  \cup { n \o "_clean" : n \in MaskNames }
                  \cup { n \o "_clean_csvready" : n \in MaskNames }

IdleP ==
    /\ p_input_files = {} /\ p_same_dir = FALSE /\ p_files = {} /\ p_dummy = {}
    /\ p_branch3 = "idle" /\ p_exit3 = "running"
    /\ p_existing_masks = {} /\ p_log4 = "none" /\ p_exit4 = "running"
    /\ p_mask_paths = {} /\ p_log5 = "none" /\ p_exit5 = "running"

\* an existing input directory with any of the feature files, and an output
\* directory that is new or is the input directory
InitP ==
    /\ p_input_files \in SUBSET InputCandidates
    /\ p_same_dir \in BOOLEAN
    /\ p_files = IF p_same_dir THEN p_input_files ELSE {}
    /\ p_dummy = {}
    /\ p_branch3 = "none" /\ p_exit3 = "running"
    /\ p_existing_masks = {} /\ p_log4 = "none" /\ p_exit4 = "running"
    /\ p_mask_paths = {} /\ p_log5 = "none" /\ p_exit5 = "running"

\* stage 3 main when a required feature is still missing (lines 389-475): the
\* dummy masks, mask_metadata.json, exit 0
Stage3DummyMasks ==
    /\ p_branch3 = "none"
    /\ StillMissing(p_input_files) # {}
    /\ p_files' = p_files \cup DummyMaskFiles \cup {MaskMetadataFile}
    /\ p_dummy' = DummyMaskFiles
    /\ p_branch3' = "dummy"
    /\ p_exit3' = "0"
    /\ UNCHANGED <<p_input_files, p_same_dir, p_existing_masks, p_log4, p_exit4,
                   p_mask_paths, p_log5, p_exit5, varsT, varsX, varsM, varsF, varsOther>>

\* stage 3 main when every required feature is found (lines 389-429, 477-554):
\* each mask function returns its output path or None; the clean masks of
\* those that returned a path; the metadata; exit 1 when no mask was created
Stage3CreateMasks ==
    /\ p_branch3 = "none"
    /\ StillMissing(p_input_files) = {}
    /\ \E outcome \in [MaskNames -> MaskOutcomes] :
          LET successful_masks ==
                  { n \in MaskNames : outcome[n] \notin {"failed", "failed_with_file"} }
          IN  /\ p_files' = p_files \cup UNION { MaskFilesOf(n, outcome[n]) : n \in MaskNames }
                              \cup {MaskMetadataFile}
              /\ p_exit3' = IF successful_masks # {} THEN "0" ELSE "1"
    /\ p_branch3' = "masks"
    /\ UNCHANGED <<p_input_files, p_same_dir, p_dummy, p_existing_masks, p_log4, p_exit4,
                   p_mask_paths, p_log5, p_exit5, varsT, varsX, varsM, varsF, varsOther>>

\* masks_dir of stages 4 and 5: <input_dir>/masks if it exists, else <input_dir>
MasksDir(files) == IF \E f \in files : f.dir = "masks" THEN "masks" ELSE ""

\* stage 4: existing_masks (lines 299-313)
ExistingMasks(files) ==
    { n \in MaskNames : File(MasksDir(files), n, ".tif") \in files }

\* stage 4: feature_paths (lines 319-332), found by os.walk below features_dir
Stage4FeaturePaths(files) ==
    LET features_dir == IF \E f \in files : f.dir = "features" THEN "features" ELSE ""
    IN  { f \in files : /\ (features_dir = "" \/ f.dir = features_dir)
                        /\ f.ext = ".tif" /\ ~HasMaskInName(f) }

\* stage 5: mask_paths (lines 139-143), found by os.listdir(masks_dir)
Stage5MaskPaths(files) ==
    { f \in files : f.dir = MasksDir(files) /\ f.ext = ".tif" /\ HasMaskInName(f) }

\* stage 4 main run on stage 3's output directory after stage 3 exited 0.
\* Past the searches (lines 338-422) only the exit status is modelled: 0, or 1
\* when an exception reaches main's handler.
Stage4Main ==
    /\ p_exit3 = "0" /\ p_exit4 = "running"
    /\ p_existing_masks' = ExistingMasks(p_files)
    /\ IF p_existing_masks' = {}
       THEN p_log4' = "No mask files found" /\ p_exit4' = "1"
       ELSE IF Stage4FeaturePaths(p_files) = {}
       THEN p_log4' = "No feature rasters found" /\ p_exit4' = "1"
       ELSE \/ p_log4' = "none" /\ p_exit4' = "0"
            \/ p_log4' = "Error during zonal statistics calculation" /\ p_exit4' = "1"
    /\ UNCHANGED <<p_input_files, p_same_dir, p_files, p_dummy, p_branch3, p_exit3,
                   p_mask_paths, p_log5, p_exit5, varsT, varsX, varsM, varsF, varsOther>>

\* stage 5 main run on stage 3's output directory after stage 3 exited 0.
\* Past the search (lines 149-275) only the exit status is modelled.
Stage5Main ==
    /\ p_exit3 = "0" /\ p_exit5 = "running"
    /\ p_mask_paths' = Stage5MaskPaths(p_files)
    /\ IF p_mask_paths' = {}
       THEN p_log5' = "No mask files found" /\ p_exit5' = "1"
       ELSE \/ p_log5' = "none" /\ p_exit5' = "0"
            \/ p_log5' = "Error during mask vectorization" /\ p_exit5' = "1"
    /\ UNCHANGED <<p_input_files, p_same_dir, p_files, p_dummy, p_branch3, p_exit3,
                   p_existing_masks, p_log4, p_exit4, varsT, varsX, varsM, varsF, varsOther>>

-----------------------------------------------------------------------------
(* Stage 2: extract_basic_terrain_features *)

\* the dictionary feature_algorithms in insertion order (lines 88-167); 'twi'
\* is added only when verify_processing_alg('saga:sagawetnessindex') holds
FeatureAlgorithms(twi_alg_available) ==
    LET gdal_params(name) ==
            [INPUT |-> "input_path", BAND |-> 1, COMPUTE_EDGES |-> TRUE,
             OUTPUT |-> File("features", name, ".tif")]
        slope_params(name) ==
            [INPUT |-> "input_path", Z_FACTOR |-> 1,
             OUTPUT |-> File("features", name, ".tif")]
    IN  << [feature_name |-> "slope", algorithm |-> "native:slope",
            params |-> slope_params("slope")],
           [feature_name |-> "aspect", algorithm |-> "gdal:aspect",
            params |-> [INPUT |-> "input_path", BAND |-> 1, COMPUTE_EDGES |-> TRUE,
                        ZEVENBERGEN |-> FALSE, TRIG_ANGLE |-> FALSE, ZERO_FLAT |-> FALSE,
                        OUTPUT |-> File("features", "aspect", ".tif")]],
           [feature_name |-> "roughness", algorithm |-> "gdal:roughness",
            params |-> gdal_params("roughness")],
           [feature_name |-> "tpi", algorithm |-> "gdal:tpitopographicpositionindex",
            params |-> gdal_params("tpi")],
           [feature_name |-> "tri", algorithm |-> "gdal:triterrainruggednessindex",
            params |-> gdal_params("tri")],
           [feature_name |-> "curvature", algorithm |-> "native:slope",
            params |-> slope_params("curvature")],
           [feature_name |-> "planform_curvature", algorithm |-> "native:slope",
            params |-> slope_params("planform_curvature")] >>
        \o (IF twi_alg_available
            THEN << [feature_name |-> "twi", algorithm |-> "saga:sagawetnessindex",
                     params |-> [DEM |-> "input_path", SLOPE_TYPE |-> 0, AREA_TYPE |-> 0,
                                 SLOPE |-> File("features", "twi_slope", ".tif"),
                                 AREA |-> File("features", "twi_area", ".tif"),
                                 TWI |-> File("features", "twi", ".tif")]] >>
            ELSE << >>)

AlgorithmIds ==
    { "native:slope", "gdal:aspect", "gdal:roughness", "gdal:tpitopographicpositionindex",
      "gdal:triterrainruggednessindex", "saga:sagawetnessindex" }

\* verify_processing_alg, with the registry as the only source of algorithms
verify_processing_alg(algorithm_id) == algorithm_id \in f_available

\* the raster files a parameter dictionary names as outputs
OutputFilesOf(params) ==
    { params[k] : k \in DOMAIN params \cap {"OUTPUT", "SLOPE", "AREA", "TWI"} }

\* np.histogram(data, bins): the number of bins left after hist[hist > 0], for
\* finite data; equal values share the one bin of the widened range
NonEmptyBins(data, bins) ==
    LET lo == SetMin(data)
        hi == SetMax(data)
        BinOf(v) == Min2(bins - 1, ((v - lo) * bins) \div (hi - lo))
    IN  IF lo = hi THEN 1 ELSE Cardinality({ BinOf(v) : v \in data })

\* calculate_spectral_entropy on the pixels of a valid layer: the kind of
\* value it returns, or the exception np.histogram raises
calculate_spectral_entropy(pixels, scale) ==
    LET data == { pixels[i] : i \in DOMAIN pixels } \ {NaN}
        finite == { v.num : v \in { d \in data : IsNum(d) } }
    IN  IF data = {} THEN [returned |-> "float"]
        ELSE IF Inf \in data THEN [raised |-> "ValueError"]
        ELSE IF NonEmptyBins(finite, 256 \div scale) > 1
             THEN [returned |-> "numpy.float64"]
             ELSE [returned |-> "int"]

\* rows, cols = entropy_array.shape (line 273): the exception it raises,
\* "none" when the value is a two-dimensional array
UnpackShape(value) ==
    IF value.returned = "numpy.ndarray2d" THEN "none"
    ELSE IF value.returned = "numpy.float64" THEN "ValueError"
    ELSE "AttributeError"

EntropyScales == <<3, 4, 5>>
EntropyName(scale) == "spectral_entropy_scale" \o ToString(scale)

\* the loop of lines 244-288 from its k-th scale on: the names added to
\* output_paths and the exception that ends it
RECURSIVE EntropyLoop(_, _, _)
EntropyLoop(pixels, k, names) ==
    IF k > Len(EntropyScales) THEN [names |-> names, error |-> "none"]
    ELSE LET entropy_array == calculate_spectral_entropy(pixels, EntropyScales[k])
         IN  IF "raised" \in DOMAIN entropy_array
             THEN [names |-> names, error |-> entropy_array.raised]
             ELSE IF UnpackShape(entropy_array) # "none"
             THEN [names |-> names, error |-> UnpackShape(entropy_array)]
             ELSE EntropyLoop(pixels, k + 1, names \cup {EntropyName(EntropyScales[k])})

FeaturePath(name) == File("features", name, ".tif")

IdleF ==
    /\ f_dem = None /\ f_available = {} /\ f_pc = "idle" /\ f_todo = << >>
    /\ f_runs = << >> /\ f_files = {} /\ f_readable = {} /\ f_output_paths = {}
    /\ f_entropy_error = "none" /\ f_feature_list = None /\ f_ret = None
    /\ f_env = None /\ f_shapefile = None /\ f_exit = "running"

DemValues == {NaN, Inf, Num(1), Num(2)}

InitF ==
    /\ f_dem \in [valid : {TRUE}, pixels : [1..DemPixels -> DemValues]]
                   \cup {[valid |-> FALSE, pixels |-> << >>]}
    /\ f_available \in SUBSET AlgorithmIds
    /\ f_pc = "main" /\ f_todo = << >>
    /\ f_runs = << >> /\ f_files = {} /\ f_readable = {} /\ f_output_paths = {}
    /\ f_entropy_error = "none" /\ f_feature_list = None /\ f_ret = None
    /\ f_env \in [qgis : BOOLEAN, input_exists : BOOLEAN]
    /\ f_shapefile = None /\ f_exit = "running"

\* the helper variables of main, left alone by extract_basic_terrain_features
varsFMain == <<f_env, f_shapefile, f_exit>>

\* main of stage 2 up to the call of extract_basic_terrain_features
\* (lines 438-461): exit 1 if QGIS does not start or --input does not exist
Stage2Start ==
    /\ f_pc = "main"
    /\ IF f_env.qgis /\ f_env.input_exists
       THEN f_pc' = "start" /\ f_exit' = f_exit
       ELSE f_pc' = "exited" /\ f_exit' = "1"
    /\ UNCHANGED <<f_dem, f_available, f_todo, f_runs, f_files, f_readable, f_output_paths,
                   f_entropy_error, f_feature_list, f_ret, f_env, f_shapefile,
                   varsT, varsX, varsM, varsP, varsOther>>

\* lines 62-167: load the DEM, return {} if that fails, build feature_algorithms
LoadDem ==
    /\ f_pc = "start"
    /\ IF ~f_dem.valid
       THEN f_ret' = [paths |-> {}] /\ f_pc' = "done" /\ f_todo' = << >>
       ELSE /\ f_todo' = FeatureAlgorithms(verify_processing_alg("saga:sagawetnessindex"))
            /\ f_pc' = "features" /\ f_ret' = f_ret
    /\ UNCHANGED <<f_dem, f_available, f_runs, f_files, f_readable, f_output_paths,
                   f_entropy_error, f_feature_list, varsFMain,
                   varsT, varsX, varsM, varsP, varsOther>>

\* one iteration of the loop of lines 170-222. What processing.run leaves at
\* the output path is the environment's: nothing (or it raised), a file that
\* does not load as a raster, or a raster. The 'twi' parameters have no
\* 'OUTPUT', so line 198 raises KeyError, caught at line 219; line 216 raises
\* UnboundLocalError after the statistics were saved, caught there too.
ProcessFeature ==
    /\ f_pc = "features"
    /\ f_todo # << >>
    /\ LET config == Head(f_todo)
           feature_name == config.feature_name
           params == config.params
       IN  IF ~verify_processing_alg(config.algorithm)
           THEN UNCHANGED <<f_runs, f_files, f_readable, f_output_paths>>
           ELSE \E outcome \in {"missing", "unreadable", "raster"} :
                  LET created == IF outcome = "missing" THEN {} ELSE OutputFilesOf(params)
                      listed == "OUTPUT" \in DOMAIN params /\ outcome # "missing"
                      stats == listed /\ outcome = "raster"
                  IN  /\ f_runs' = Append(f_runs, [algorithm |-> config.algorithm,
                                                   params |-> params])
                      /\ f_files' = f_files \cup created \cup
                            (IF stats
                             THEN {File("stats", feature_name \o "_stats", ".json")}
                             ELSE {})
                      /\ f_readable' = IF outcome = "raster"
                                       THEN f_readable \cup created ELSE f_readable
                      /\ f_output_paths' = IF listed
                                           THEN f_output_paths \cup {feature_name}
                                           ELSE f_output_paths
    /\ f_todo' = Tail(f_todo)
    /\ UNCHANGED <<f_dem, f_available, f_pc, f_entropy_error, f_feature_list, f_ret,
                   varsFMain, varsT, varsX, varsM, varsP, varsOther>>

\* the spectral entropy block (lines 224-290)
SpectralEntropy ==
    /\ f_pc = "features"
    /\ f_todo = << >>
    /\ LET loop == EntropyLoop(f_dem.pixels, 1, {})
       IN  /\ f_output_paths' = f_output_paths \cup loop.names
           /\ f_files' = f_files \cup { FeaturePath(n) : n \in loop.names }
           /\ f_readable' = f_readable \cup { FeaturePath(n) : n \in loop.names }
           /\ f_entropy_error' = loop.error
    /\ f_pc' = "stats"
    /\ UNCHANGED <<f_dem, f_available, f_todo, f_runs, f_feature_list, f_ret,
                   varsFMain, varsT, varsX, varsM, varsP, varsOther>>

\* lines 292-322: the statistics of every listed feature that loads,
\* all_features_stats.json, feature_list.json, and the return
FinishFeatures ==
    /\ f_pc = "stats"
    /\ f_files' = f_files
          \cup { File("stats", n \o "_stats", ".csv") :
                   n \in { m \in f_output_paths : FeaturePath(m) \in f_readable } }
          \cup { File("stats", "all_features_stats", ".json"),
                 File("", "feature_list", ".json") }
    /\ f_feature_list' = [features |-> f_output_paths]
    /\ f_ret' = [paths |-> f_output_paths]
    /\ f_pc' = "done"
    /\ UNCHANGED <<f_dem, f_available, f_todo, f_runs, f_readable, f_output_paths,
                   f_entropy_error, varsFMain, varsT, varsX, varsM, varsP, varsOther>>

\* <output_dir>/<input name>_features.shp (lines 470-472) and the files the
\* ESRI Shapefile driver writes beside it: .shx, .dbf, the .cpg of
\* fileEncoding, and a .prj when the layer has a coordinate reference system
ShapefilePath == File("", "input_features", ".shp")
ShapefileParts(extras) ==
    { File("", "input_features", ext) : ext \in {".shp", ".shx", ".dbf", ".cpg"} \cup extras }

\* create_shapefile_from_features (lines 330-436): what it returns and the
\* files it leaves. The DEM does not load: None. The writer is the
\* environment's: it writes the shapefile (with a .prj or not), it
\* reports an error in its result, which line 427 drops, or it raises.
create_shapefile_from_features(dem, outcome, extras) ==
    IF ~dem.valid THEN [returned |-> None, files |-> {}]
    ELSE IF outcome = "written"
    THEN [returned |-> ShapefilePath, files |-> ShapefileParts(extras)]
    ELSE IF outcome = "error_result" THEN [returned |-> ShapefilePath, files |-> {}]
    ELSE [returned |-> None, files |-> {}]

\* main of stage 2 after extract_basic_terrain_features returned (lines
\* 463-487): exit 1 on an empty dictionary, else the shapefile and exit 0
Stage2Finish ==
    /\ f_pc = "done"
    /\ IF f_ret.paths = {}
       THEN f_exit' = "1" /\ UNCHANGED <<f_files, f_shapefile>>
       ELSE \E outcome \in {"written", "error_result", "raised"},
               extras \in SUBSET {".prj"} :
               LET result == create_shapefile_from_features(f_dem, outcome, extras)
               IN  /\ f_shapefile' = [returned |-> result.returned]
                   /\ f_files' = f_files \cup result.files
                   /\ f_exit' = "0"
    /\ f_pc' = "exited"
    /\ UNCHANGED <<f_dem, f_available, f_todo, f_runs, f_readable, f_output_paths,
                   f_entropy_error, f_feature_list, f_ret, f_env,
                   varsT, varsX, varsM, varsP, varsOther>>

-----------------------------------------------------------------------------
(* One call of create_clean_raster_for_sonification *)

\* the rasters given to the call: one row of CleanW pixels; the band declares no
\* NoData value, a number, NaN or infinity
CleanNoData == {None, Num(-9999), NaN, Inf}
CleanValues == {Num(-9999), NaN, Inf, Num(5), ReadError}
CleanRasters ==
    { [w |-> CleanW, h |-> 1, nodata |-> nd, useNoData |-> nd # None, cells |-> c] :
        nd \in CleanNoData, c \in [CellsOf(CleanW, 1) -> CleanValues] }
DefaultValues == {0, 1}

IdleK ==
    /\ k_raster = None /\ k_default = 0 /\ k_called = FALSE
    /\ k_clean = None /\ k_csvready = None /\ k_ret = None

InitK ==
    /\ k_raster \in CleanRasters
    /\ k_default \in DefaultValues
    /\ k_called = FALSE
    /\ k_clean = None /\ k_csvready = None /\ k_ret = None

\* the call: None when the data cannot be read, no pixel is valid, or the
\* driver cannot create the output (lines 415-478); the '_csvready' raster is
\* written unless the driver cannot create it (lines 503-545)
CreateCleanRaster ==
    /\ k_raster # None /\ ~k_called
    /\ k_called' = TRUE
    /\ LET out == create_clean_raster_for_sonification(k_raster, k_default)
       IN  IF out = None
           THEN k_clean' = None /\ k_csvready' = None /\ k_ret' = None
           ELSE \E dst_ds \in BOOLEAN, csv_ds \in BOOLEAN :
                  IF ~dst_ds
                  THEN k_clean' = None /\ k_csvready' = None /\ k_ret' = None
                  ELSE /\ k_clean' = out.clean
                       /\ k_csvready' = IF csv_ds THEN out.csvready ELSE None
                       /\ k_ret' = [path |-> "output_raster_path"]
    /\ UNCHANGED <<k_raster, k_default, varsT, varsX, varsM, varsP, varsF, varsZ, varsL, varsC>>

-----------------------------------------------------------------------------
(* Stage 4 main: zonal statistics *)

\* the keys of mask_files (lines 300-304), in the order of the dictionary
ZoneNames == <<"ridge", "valley", "erosion_risk">>
\* the feature rasters that may be in features_dir
ZonalFeatures == {"slope", "roughness"}

\* what a mask file is: absent; present but vectorize_mask returns None (the
\* raster does not load or gdal:polygonize leaves no output); vectorized to a
\* shapefile that loads as a vector layer, or to one that does not
MaskStates == {"absent", "not_vectorized", "zone_valid", "zone_invalid"}
\* what a feature file is: absent, present but not loadable, or a raster
FeatureStates == {"absent", "unreadable", "raster"}

\* vectorize_mask(mask_path, output_path): whether it returns output_path
vectorize_mask(mask_state) == mask_state \in {"zone_valid", "zone_invalid"}

\* calculate_zonal_statistics_vector on a valid zone layer and a loaded
\* raster: 'processing' is not a name of the module (it is imported inside
\* other functions only), so line 220 raises NameError; the handler logs it and
\* then raises NameError itself at line 255, 'traceback' not being imported
\* either
calculate_zonal_statistics_vector(vector_valid, raster_valid) ==
    IF ~vector_valid THEN [returned |-> None]
    ELSE IF ~raster_valid THEN [returned |-> None]
    ELSE [raised |-> "NameError"]

\* the loop of lines 128-147 over the features not yet visited: the keys of
\* output_paths, or the exception that leaves the loop
RECURSIVE ZonalLoop(_, _, _)
ZonalLoop(features, todo, output_paths) ==
    IF todo = {} THEN [output_paths |-> output_paths]
    ELSE LET feature_name == CHOOSE f \in todo : TRUE
         IN  IF features[feature_name] # "raster"
             THEN ZonalLoop(features, todo \ {feature_name}, output_paths)
             ELSE LET stats_result == calculate_zonal_statistics_vector(TRUE, TRUE)
                  IN  IF "raised" \in DOMAIN stats_result
                      THEN [raised |-> stats_result.raised]
                      ELSE ZonalLoop(features, todo \ {feature_name},
                                     IF stats_result.returned # None
                                     THEN output_paths \cup {feature_name}
                                     ELSE output_paths)

\* calculate_zonal_statistics(zone_path, feature_paths, output_dir, stats):
\* the keys of the returned dictionary ({} after an exception or for a zone
\* that does not load) and whether <zone>_combined_stats.csv was written
calculate_zonal_statistics(mask_state, features) ==
    IF mask_state # "zone_valid" THEN [keys |-> {}, combined |-> FALSE]
    ELSE LET feature_paths == { f \in DOMAIN features : features[f] # "absent" }
             loop == ZonalLoop(features, feature_paths, {})
         IN  IF "raised" \in DOMAIN loop
             THEN [keys |-> {}, combined |-> FALSE]
             ELSE [keys |-> loop.output_paths \cup {"combined"}, combined |-> TRUE]

IdleZ ==
    /\ z_masks = None /\ z_features = None /\ z_pc = "idle" /\ z_todo = << >>
    /\ z_files = {} /\ z_all_results = {} /\ z_metadata = None /\ z_exit = "running"

InitZ ==
    /\ z_masks \in [{ZoneNames[i] : i \in DOMAIN ZoneNames} -> MaskStates]
    /\ z_features \in [ZonalFeatures -> FeatureStates]
    /\ z_pc = "start" /\ z_todo = << >>
    /\ z_files = {} /\ z_all_results = {} /\ z_metadata = None /\ z_exit = "running"

\* existing_masks in dictionary order (lines 306-313)
RECURSIVE ExistingMaskSeq(_, _)
ExistingMaskSeq(masks, i) ==
    IF i > Len(ZoneNames) THEN << >>
    ELSE (IF masks[ZoneNames[i]] # "absent" THEN <<ZoneNames[i]>> ELSE << >>)
         \o ExistingMaskSeq(masks, i + 1)

\* lines 284-344: the searches for masks and features
ZonalFindInputs ==
    /\ z_pc = "start"
    /\ LET existing_masks == ExistingMaskSeq(z_masks, 1)
           feature_paths == { f \in ZonalFeatures : z_features[f] # "absent" }
       IN  IF existing_masks = << >> \/ feature_paths = {}
           THEN z_exit' = "1" /\ z_pc' = "done" /\ z_todo' = << >>
           ELSE z_exit' = z_exit /\ z_pc' = "masks" /\ z_todo' = existing_masks
    /\ UNCHANGED <<z_masks, z_features, z_files, z_all_results, z_metadata,
                   varsT, varsX, varsM, varsP, varsF, varsK, varsL, varsC>>

\* one iteration of the loop of lines 349-372
ZonalProcessMask ==
    /\ z_pc = "masks" /\ z_todo # << >>
    /\ LET mask_name == Head(z_todo)
           vector_path == File("vectors", mask_name \o "_vector", ".shp")
       IN  IF ~vectorize_mask(z_masks[mask_name])
           THEN UNCHANGED <<z_files, z_all_results>>
           ELSE LET stats_results == calculate_zonal_statistics(z_masks[mask_name], z_features)
                IN  /\ z_files' = z_files \cup {vector_path} \cup
                          (IF stats_results.combined
                           THEN {File("statistics/" \o mask_name,
                                      mask_name \o "_vector_combined_stats", ".csv")}
                           ELSE {})
                    /\ z_all_results' =
                          IF stats_results.keys # {}
                          THEN z_all_results \cup
                                 {[mask_name |-> mask_name, vector |-> vector_path,
                                   statistics |-> stats_results.keys]}
                          ELSE z_all_results
    /\ z_todo' = Tail(z_todo)
    /\ UNCHANGED <<z_masks, z_features, z_pc, z_metadata, z_exit,
                   varsT, varsX, varsM, varsP, varsF, varsK, varsL, varsC>>

\* lines 374-422: all_zones_statistics.csv, the metadata, exit 0
ZonalSaveMetadata ==
    /\ z_pc = "masks" /\ z_todo = << >>
    /\ z_files' = z_files \cup {File("", "all_zones_statistics", ".csv"),
                                File("", "zonal_statistics_metadata", ".json")}
    /\ z_metadata' = [zones |-> z_all_results]
    /\ z_exit' = "0"
    /\ z_pc' = "done"
    /\ UNCHANGED <<z_masks, z_features, z_todo, z_all_results,
                   varsT, varsX, varsM, varsP, varsF, varsK, varsL, varsC>>

-----------------------------------------------------------------------------
(* utils/config_utils.py: JSON text and Python values *)

\* Python values: None and Num(n) as above, and
\* a str, as the sequence of its characters (a word that is never split or
\* searched is written as one character)
Str(chars) == [str |-> chars]
\* a bool
Bool(b) == [bool |-> b]
\* a list
List(items) == [list |-> items]
\* a dict, as the sequence of its <<key, value>> pairs in insertion order
Dict(pairs) == [dict |-> pairs]

IsStr(v) == DOMAIN v = {"str"}
IsList(v) == DOMAIN v = {"list"}
IsDict(v) == DOMAIN v = {"dict"}

\* the tokens of a JSON text other than its scalars
LBrace == [tok |-> "{"]
RBrace == [tok |-> "}"]
LBracket == [tok |-> "["]
RBracket == [tok |-> "]"]
Colon == [tok |-> ":"]
Comma == [tok |-> ","]
IsScalar(t) == t = None \/ IsNum(t) \/ IsStr(t) \/ DOMAIN t = {"bool"}

\* json.dump: the tokens of the text of a value
RECURSIVE JsonDump(_)
RECURSIVE JsonDumpItems(_, _)
RECURSIVE JsonDumpPairs(_, _)
JsonDump(v) ==
    IF IsDict(v) THEN <<LBrace>> \o JsonDumpPairs(v.dict, 1) \o <<RBrace>>
    ELSE IF IsList(v) THEN <<LBracket>> \o JsonDumpItems(v.list, 1) \o <<RBracket>>
    ELSE <<v>>
JsonDumpItems(items, i) ==
    IF i > Len(items) THEN << >>
    ELSE (IF i > 1 THEN <<Comma>> ELSE << >>) \o JsonDump(items[i]) \o JsonDumpItems(items, i + 1)
JsonDumpPairs(pairs, i) ==
    IF i > Len(pairs) THEN << >>
    ELSE (IF i > 1 THEN <<Comma>> ELSE << >>) \o <<pairs[i][1], Colon>>
         \o JsonDump(pairs[i][2]) \o JsonDumpPairs(pairs, i + 1)

\* d[key] = value on the pairs of a dict: a key already there keeps its place
RECURSIVE DictSet(_, _, _)
DictSet(pairs, key, value) ==
    IF pairs = << >> THEN << <<key, value>> >>
    ELSE IF Head(pairs)[1] = key THEN << <<key, value>> >> \o Tail(pairs)
    ELSE <<Head(pairs)>> \o DictSet(Tail(pairs), key, value)

\* the JSON decoder on tokens t from position i: [ok, value, next]
RECURSIVE ParseValue(_, _)
RECURSIVE ParseMembers(_, _, _)
RECURSIVE ParseElements(_, _, _)
ParseValue(t, i) ==
    IF i > Len(t) THEN [ok |-> FALSE]
    ELSE IF IsScalar(t[i]) THEN [ok |-> TRUE, value |-> t[i], next |-> i + 1]
    ELSE IF t[i] = LBrace
         THEN IF i + 1 <= Len(t) /\ t[i + 1] = RBrace
              THEN [ok |-> TRUE, value |-> Dict(<< >>), next |-> i + 2]
              ELSE ParseMembers(t, i + 1, << >>)
    ELSE IF t[i] = LBracket
         THEN IF i + 1 <= Len(t) /\ t[i + 1] = RBracket
              THEN [ok |-> TRUE, value |-> List(<< >>), next |-> i + 2]
              ELSE ParseElements(t, i + 1, << >>)
    ELSE [ok |-> FALSE]
ParseMembers(t, i, pairs) ==
    IF i + 1 > Len(t) \/ ~IsStr(t[i]) \/ t[i + 1] # Colon THEN [ok |-> FALSE]
    ELSE LET r == ParseValue(t, i + 2)
         IN  IF ~r.ok \/ r.next > Len(t) THEN [ok |-> FALSE]
             ELSE LET found == DictSet(pairs, t[i], r.value)
                  IN  IF t[r.next] = Comma THEN ParseMembers(t, r.next + 1, found)
                      ELSE IF t[r.next] = RBrace
                      THEN [ok |-> TRUE, value |-> Dict(found), next |-> r.next + 1]
                      ELSE [ok |-> FALSE]
ParseElements(t, i, items) ==
    LET r == ParseValue(t, i)
    IN  IF ~r.ok \/ r.next > Len(t) THEN [ok |-> FALSE]
        ELSE IF t[r.next] = Comma THEN ParseElements(t, r.next + 1, Append(items, r.value))
        ELSE IF t[r.next] = RBracket
        THEN [ok |-> TRUE, value |-> List(Append(items, r.value)), next |-> r.next + 1]
        ELSE [ok |-> FALSE]

\* json.load on the tokens of a file: the value, or the exception raised
JsonLoad(t) ==
    LET r == ParseValue(t, 1)
    IN  IF r.ok /\ r.next = Len(t) + 1 THEN [value |-> r.value]
        ELSE [raised |-> "JSONDecodeError"]

-----------------------------------------------------------------------------
(* utils/config_utils.py: ConfigManager *)

\* a word as a str of one character
Word(w) == Str(<<w>>)

\* _get_default_config (lines 60-98)
DefaultConfig ==
    Dict(<< <<Word("general"),
              Dict(<< <<Word("default_conda_env"), Word("qgis_env")>>,
                      <<Word("debug_mode"), Bool(FALSE)>> >>)>>,
            <<Word("directories"),
              Dict(<< <<Word("input_dir"), Word("dataset")>>,
                      <<Word("output_dir"), Word("output")>>,
                      <<Word("temp_dir"), Word("temp")>> >>)>>,
            <<Word("preprocessing"),
              Dict(<< <<Word("target_crs"), Word("EPSG:32616")>>,
                      <<Word("cell_size"), Num(1)>>,
                      <<Word("resample_method"), Word("bilinear")>> >>)>>,
            <<Word("feature_extraction"),
              Dict(<< <<Word("basic_features"),
                        Dict(<< <<Word("slope"),
                                  Dict(<< <<Word("algorithm"), Word("native:slope")>>,
                                          <<Word("z_factor"), Num(1)>> >>)>>,
                                <<Word("roughness"),
                                  Dict(<< <<Word("algorithm"), Word("native:roughness")>>,
                                          <<Word("radius"), Num(3)>> >>)>>,
                                <<Word("tpi"),
                                  Dict(<< <<Word("algorithm"),
                                            Word("native:tpitopographicpositionindex")>>,
                                          <<Word("radius"), Num(3)>> >>)>> >>)>> >>)>> >>)

\* the file at config_path: absent, present but not readable, or a text
AbsentFile == [exists |-> FALSE]
UnreadableFile == [exists |-> TRUE, readable |-> FALSE]
TextFile(tokens) == [exists |-> TRUE, readable |-> TRUE, tokens |-> tokens]

\* a variant of _load_config without the exception handler
load_config_unhandled(file) ==
    IF file.exists
    THEN IF ~file.readable THEN [raised |-> "PermissionError"]
         ELSE LET config == JsonLoad(file.tokens)
              IN  IF "raised" \in DOMAIN config THEN config ELSE [returned |-> config.value]
    ELSE [returned |-> DefaultConfig]

\* ConfigManager._load_config (lines 38-58): what it returns
load_config(file) ==
    IF file.exists
    THEN IF ~file.readable THEN [returned |-> DefaultConfig]
         ELSE LET config == JsonLoad(file.tokens)
              IN  IF "raised" \in DOMAIN config
                  THEN [returned |-> DefaultConfig]
                  ELSE [returned |-> config.value]
    ELSE [returned |-> DefaultConfig]

\* needle in hay, for two sequences of characters
IsSubstring(needle, hay) ==
    \E i \in 0 .. Len(hay) - Len(needle) : SubSeq(hay, i + 1, i + Len(needle)) = needle

\* key in container, for a str key: a bool, or the exception raised
PyContains(container, key) ==
    IF IsDict(container)
    THEN [ok |-> \E i \in DOMAIN container.dict : container.dict[i][1] = key]
    ELSE IF IsList(container)
    THEN [ok |-> \E i \in DOMAIN container.list : container.list[i] = key]
    ELSE IF IsStr(container)
    THEN [ok |-> IsSubstring(key.str, container.str)]
    ELSE [raised |-> "TypeError"]

\* container[key], for a str key: the value, or the exception raised
PyGetItem(container, key) ==
    IF IsDict(container)
    THEN IF \E i \in DOMAIN container.dict : container.dict[i][1] = key
         THEN [value |-> container.dict[CHOOSE i \in DOMAIN container.dict :
                                           container.dict[i][1] = key][2]]
         ELSE [raised |-> "KeyError"]
    ELSE [raised |-> "TypeError"]

\* a variant of ConfigManager.get without the exception handler
get_unhandled(config, section, parameter, default) ==
    LET in_config == PyContains(config, section)
    IN  IF "raised" \in DOMAIN in_config THEN in_config
        ELSE IF ~in_config.ok THEN [returned |-> default]
        ELSE LET sec == PyGetItem(config, section)
             IN  IF "raised" \in DOMAIN sec THEN sec
                 ELSE IF parameter = None THEN [returned |-> sec.value]
                 ELSE LET in_section == PyContains(sec.value, parameter)
                      IN  IF "raised" \in DOMAIN in_section THEN in_section
                          ELSE IF ~in_section.ok THEN [returned |-> default]
                          ELSE LET par == PyGetItem(sec.value, parameter)
                               IN  IF "raised" \in DOMAIN par THEN par
                                   ELSE [returned |-> par.value]

\* ConfigManager.get (lines 100-127)
get(config, section, parameter, default) ==
    LET in_config == PyContains(config, section)
    IN  IF "raised" \in DOMAIN in_config THEN [returned |-> default]
        ELSE IF ~in_config.ok THEN [returned |-> default]
        ELSE LET sec == PyGetItem(config, section)
             IN  IF "raised" \in DOMAIN sec THEN [returned |-> default]
                 ELSE IF parameter = None THEN [returned |-> sec.value]
                 ELSE LET in_section == PyContains(sec.value, parameter)
                      IN  IF "raised" \in DOMAIN in_section THEN [returned |-> default]
                          ELSE IF ~in_section.ok THEN [returned |-> default]
                          ELSE LET par == PyGetItem(sec.value, parameter)
                               IN  IF "raised" \in DOMAIN par THEN [returned |-> default]
                                   ELSE [returned |-> par.value]

\* path.split('.') on the characters of path
RECURSIVE Split(_, _)
Split(chars, part) ==
    IF chars = << >> THEN <<Str(part)>>
    ELSE IF Head(chars) = "." THEN <<Str(part)>> \o Split(Tail(chars), << >>)
    ELSE Split(Tail(chars), Append(part, Head(chars)))

\* the loop of lines 144-148 from the k-th part on
RECURSIVE NestedLoop(_, _, _, _)
NestedLoop(value, parts, k, default) ==
    IF k > Len(parts) THEN [returned |-> value]
    ELSE LET in_value == PyContains(value, parts[k])
         IN  IF "raised" \in DOMAIN in_value THEN in_value
             ELSE IF ~in_value.ok THEN [returned |-> default]
             ELSE LET item == PyGetItem(value, parts[k])
                  IN  IF "raised" \in DOMAIN item THEN item
                      ELSE NestedLoop(item.value, parts, k + 1, default)

\* ConfigManager.get_nested (lines 129-153)
get_nested(config, path, default) ==
    LET result == NestedLoop(config, Split(path.str, << >>), 1, default)
    IN  IF "raised" \in DOMAIN result THEN [returned |-> default] ELSE result

\* container[key] = value, for a str key: the container after it, or the
\* exception raised
PySetItem(container, key, value) ==
    IF IsDict(container) THEN [value |-> Dict(DictSet(container.dict, key, value))]
    ELSE [raised |-> "TypeError"]

\* ConfigManager.update (lines 178-198): self.config after the call and the
\* bool returned
update(config, section, parameter, value) ==
    LET in_config == PyContains(config, section)
    IN  IF "raised" \in DOMAIN in_config THEN [config |-> config, returned |-> FALSE]
        ELSE LET with_section == IF in_config.ok THEN [value |-> config]
                                 ELSE PySetItem(config, section, Dict(<< >>))
             IN  IF "raised" \in DOMAIN with_section
                 THEN [config |-> config, returned |-> FALSE]
                 ELSE LET item == PyGetItem(with_section.value, section)
                      IN  IF "raised" \in DOMAIN item
                          THEN [config |-> with_section.value, returned |-> FALSE]
                          ELSE LET set == PySetItem(item.value, parameter, value)
                               IN  IF "raised" \in DOMAIN set
                                   THEN [config |-> with_section.value, returned |-> FALSE]
                                   ELSE [config |-> PySetItem(with_section.value, section,
                                                              set.value).value,
                                         returned |-> TRUE]

\* ConfigManager.save_config (lines 155-176): the file at save_path after the
\* call and the bool returned. The environment decides whether os.makedirs
\* and open(save_path, 'w') succeed, and how many tokens of the text reach
\* the file: open empties the file before json.dump writes, so a write that
\* fails leaves a part of the text and False is returned. A file that could
\* not be read before the call cannot be read after it.
save_config(config, file, opened, written) ==
    LET text == JsonDump(config)
    IN  IF ~opened THEN [file |-> file, returned |-> FALSE]
        ELSE [file |-> IF file.exists /\ ~file.readable THEN UnreadableFile
                       ELSE TextFile(SubSeq(text, 1, written)),
              returned |-> written = Len(text)]

-----------------------------------------------------------------------------
(* Stage 1 main: load and prepare the raster *)

\* bool(v)
Truthy(v) ==
    IF v = None THEN FALSE
    ELSE IF IsNum(v) THEN v.num # 0
    ELSE IF IsStr(v) THEN v.str # << >>
    ELSE IF IsList(v) THEN v.list # << >>
    ELSE IF IsDict(v) THEN v.dict # << >>
    ELSE v.bool

\* the coordinate reference systems of the model
CrsIds == {Word("EPSG:4326"), Word("EPSG:32616")}
\* QgsCoordinateReferenceSystem(target_crs_string)
MakeCrs(crs_string) ==
    IF crs_string \in CrsIds THEN [authid |-> crs_string] ELSE [authid |-> Str(<< >>)]

\* the file at --input: absent, not a raster, or a raster with its CRS
InputFiles ==
    {[exists |-> FALSE], [exists |-> TRUE, valid |-> FALSE]}
    \cup { [exists |-> TRUE, valid |-> TRUE, crs |-> MakeCrs(c)] : c \in CrsIds }
\* args.epsg: not given, empty, or a code
EpsgArgs == {None, Str(<< >>)} \cup CrsIds

EpsgCodeKey == Word("epsg_code")
\* the configuration files of the runs
Stage1ConfigFiles ==
    {AbsentFile, UnreadableFile, TextFile(<<LBrace>>)}
    \cup { TextFile(JsonDump(c)) :
             c \in {Dict(<< >>), None, List(<<EpsgCodeKey>>)}
                   \cup { Dict(<< <<EpsgCodeKey, v>> >>) : v \in EpsgArgs } }

\* a variant that prefers the configuration to the argument
ChooseEpsgCodeConfigFirst(epsg, config) ==
    LET in_config == PyContains(config, EpsgCodeKey)
    IN  IF "raised" \in DOMAIN in_config THEN in_config
        ELSE IF in_config.ok
        THEN LET item == PyGetItem(config, EpsgCodeKey)
             IN  IF "raised" \in DOMAIN item THEN item ELSE [returned |-> item.value]
        ELSE [returned |-> epsg]

\* epsg_code of lines 151-155: the value, or the exception raised
ChooseEpsgCode(epsg, config) ==
    IF ~Truthy(epsg)
    THEN LET in_config == PyContains(config, EpsgCodeKey)
         IN  IF "raised" \in DOMAIN in_config THEN in_config
             ELSE IF in_config.ok
             THEN LET item == PyGetItem(config, EpsgCodeKey)
                  IN  IF "raised" \in DOMAIN item THEN item ELSE [returned |-> item.value]
             ELSE [returned |-> epsg]
    ELSE [returned |-> epsg]

\* a variant that accepts an output file of any size
verify_output_any_size(size, min_size_bytes) == size # None

\* verify_output_exists(output_path, min_size_bytes) on a file of the given
\* size, None for no file
verify_output_exists(size, min_size_bytes) ==
    IF size = None THEN FALSE
    ELSE IF min_size_bytes > 0 /\ size.num < min_size_bytes THEN FALSE
    ELSE TRUE

\* min_size_bytes of line 112
MinSizeBytes == 1000
\* what gdal:warpreproject leaves at --output
OutputSizes == {None, Num(MinSizeBytes - 1), Num(MinSizeBytes)}

IdleL ==
    /\ l_input = None /\ l_epsg = None /\ l_config_file = None /\ l_env = None
    /\ l_pc = "idle" /\ l_config = None /\ l_target_crs_string = None /\ l_warp = None
    /\ l_output = None /\ l_error = "none" /\ l_exit = "running"

InitL ==
    /\ l_input \in InputFiles
    /\ l_epsg \in EpsgArgs
    /\ l_config_file \in Stage1ConfigFiles
    /\ l_env \in [qgis : BOOLEAN, makedirs : BOOLEAN]
    /\ l_pc = "start" /\ l_config = None /\ l_target_crs_string = None /\ l_warp = None
    /\ l_output = None /\ l_error = "none" /\ l_exit = "running"

\* lines 128-136: ConfigManager() and initialize_qgis()
Stage1LoadConfig ==
    /\ l_pc = "start"
    /\ l_config' = load_config(l_config_file).returned
    /\ IF ~l_env.qgis
       THEN l_error' = "Failed to initialize QGIS" /\ l_exit' = "1" /\ l_pc' = "done"
       ELSE l_error' = l_error /\ l_exit' = l_exit /\ l_pc' = "prepare"
    /\ UNCHANGED <<l_input, l_epsg, l_config_file, l_env, l_target_crs_string, l_warp,
                   l_output, varsT, varsX, varsM, varsP, varsF, varsK, varsZ, varsC>>

\* lines 138-160: the input file, the output directory, the EPSG code
Stage1Prepare ==
    /\ l_pc = "prepare"
    /\ LET epsg_code == ChooseEpsgCode(l_epsg, l_config)
       IN  IF ~l_input.exists
           THEN /\ l_error' = "Input file not found" /\ l_exit' = "1" /\ l_pc' = "done"
                /\ l_target_crs_string' = l_target_crs_string
           ELSE IF ~l_env.makedirs \/ "raised" \in DOMAIN epsg_code
           THEN /\ l_error' = "Error during raster preparation" /\ l_exit' = "1"
                /\ l_pc' = "done" /\ l_target_crs_string' = l_target_crs_string
           ELSE /\ l_target_crs_string' =
                      IF Truthy(epsg_code.returned) THEN epsg_code.returned ELSE None
                /\ l_error' = l_error /\ l_exit' = l_exit /\ l_pc' = "reproject"
    /\ UNCHANGED <<l_input, l_epsg, l_config_file, l_env, l_config, l_warp, l_output,
                   varsT, varsX, varsM, varsP, varsF, varsK, varsZ, varsC>>

\* reproject_raster (lines 41-121) and lines 163-167 of main. The run of
\* gdal:warpreproject raises, or leaves a file of some size or none.
Stage1Reproject ==
    /\ l_pc = "reproject"
    /\ IF ~l_input.valid \/ (l_target_crs_string # None /\ ~IsStr(l_target_crs_string))
       THEN /\ l_error' = "Reprojection failed" /\ l_exit' = "1" /\ l_pc' = "done"
            /\ UNCHANGED <<l_warp, l_output>>
       ELSE LET source_crs == l_input.crs
                target_crs == IF l_target_crs_string # None
                              THEN MakeCrs(l_target_crs_string) ELSE source_crs
            IN  \E outcome \in {[raised |-> "QgsProcessingException"]} \cup OutputSizes :
                  /\ l_warp' = [mode |-> IF source_crs = target_crs
                                         THEN "convert" ELSE "reproject",
                                TARGET_CRS |-> target_crs,
                                raised |-> "raised" \in DOMAIN outcome]
                  /\ l_output' = IF "raised" \in DOMAIN outcome THEN None ELSE outcome
                  /\ IF "raised" \notin DOMAIN outcome
                        /\ verify_output_exists(outcome, MinSizeBytes)
                     THEN l_error' = l_error /\ l_exit' = l_exit /\ l_pc' = "stats"
                     ELSE l_error' = "Reprojection failed" /\ l_exit' = "1" /\ l_pc' = "done"
    /\ UNCHANGED <<l_input, l_epsg, l_config_file, l_env, l_config, l_target_crs_string,
                   varsT, varsX, varsM, varsP, varsF, varsK, varsZ, varsC>>

\* lines 169-199: the statistics of the output, which may not load or may
\* raise, and the exit
Stage1Statistics ==
    /\ l_pc = "stats"
    /\ \E outcome \in {"not_loaded", "saved", "raised"} :
          IF outcome = "raised"
          THEN l_error' = "Error during raster preparation" /\ l_exit' = "1"
          ELSE l_error' = l_error /\ l_exit' = "0"
    /\ l_pc' = "done"
    /\ UNCHANGED <<l_input, l_epsg, l_config_file, l_env, l_config, l_target_crs_string,
                   l_warp, l_output, varsT, varsX, varsM, varsP, varsF, varsK, varsZ, varsC>>

-----------------------------------------------------------------------------
(* A ConfigManager: its construction and its calls *)

\* the keys and the contents of the configuration files: scalars, a str, a
\* list, and mappings of up to two levels
ConfigKeys == <<Str(<<"a">>), Str(<<"b">>)>>
ConfigLeaves == {None, Str(<<"a", "b">>), List(<<Str(<<"a">>)>>)}
\* the mappings of the keys, in their order, to values of V
DictsOver(V) ==
    {Dict(<< >>)}
    \cup { Dict(<< <<ConfigKeys[i], v>> >>) : i \in DOMAIN ConfigKeys, v \in V }
    \cup { Dict(<< <<ConfigKeys[1], v>>, <<ConfigKeys[2], w>> >>) : v \in V, w \in V }
ConfigContents ==
    ConfigLeaves \cup {Num(1)} \cup DictsOver(ConfigLeaves \cup DictsOver(ConfigLeaves))

\* how a file is made from the JSON text of a value: the whole text, no text,
\* the text without its last token, its first token only, or the text with a
\* closing brace after it
FileVariants == {"whole", "empty", "cut_last", "first_only", "extra"}
FileOf(value, variant) ==
    LET text == JsonDump(value)
    IN  TextFile(IF variant = "whole" THEN text
                 ELSE IF variant = "empty" THEN << >>
                 ELSE IF variant = "cut_last" THEN SubSeq(text, 1, Len(text) - 1)
                 ELSE IF variant = "first_only" THEN SubSeq(text, 1, 1)
                 ELSE Append(text, RBrace))

\* the arguments of the calls
PathChars == {"a", "b", "."}
Paths == UNION { [1 .. n -> PathChars] : n \in 0 .. MaxPathChars }
Defaults == {None, Num(7)}

IdleC ==
    /\ c_file = None /\ c_written = None /\ c_constructed = FALSE /\ c_raised = "none"
    /\ c_config = None /\ c_call = None /\ c_result = None
    /\ c_update = None /\ c_saved = None

InitC ==
    /\ \/ c_file \in {AbsentFile, UnreadableFile} /\ c_written = None
       \/ \E value \in ConfigContents, variant \in FileVariants :
             /\ c_file = FileOf(value, variant)
             \* a text of one token is whole with its first token only
             /\ c_written = [value |-> value,
                             variant |-> IF FileOf(value, variant) = FileOf(value, "whole")
                                         THEN "whole" ELSE variant]
    /\ c_constructed = FALSE /\ c_raised = "none"
    /\ c_config = None /\ c_call = None /\ c_result = None
    /\ c_update = None /\ c_saved = None

\* ConfigManager.__init__ (lines 28-36)
Construct ==
    /\ c_file # None /\ ~c_constructed
    /\ c_constructed' = TRUE
    /\ LET loaded == load_config(c_file)
       IN  IF "raised" \in DOMAIN loaded
           THEN c_raised' = loaded.raised /\ c_config' = c_config
           ELSE c_raised' = c_raised /\ c_config' = loaded.returned
    /\ UNCHANGED <<c_file, c_written, c_call, c_result, c_update, c_saved,
                   varsT, varsX, varsM, varsP, varsF, varsK, varsZ, varsL>>

\* a call config_manager.get(section, parameter, default); one call is
\* followed, a later one starts from the same self.config, as does one made
\* after save_config
CallGet ==
    /\ c_constructed /\ c_raised = "none" /\ c_call = None /\ c_saved = None
    /\ \E i \in DOMAIN ConfigKeys,
          parameter \in {None} \cup {ConfigKeys[j] : j \in DOMAIN ConfigKeys},
          default \in Defaults :
          /\ c_call' = [fn |-> "get", section |-> ConfigKeys[i],
                        parameter |-> parameter, default |-> default, config |-> c_config]
          /\ c_result' = get(c_config, ConfigKeys[i], parameter, default)
    /\ UNCHANGED <<c_file, c_written, c_constructed, c_raised, c_config,
                   c_update, c_saved, varsT, varsX, varsM, varsP, varsF, varsK, varsZ, varsL>>

\* a call config_manager.get_nested(path, default)
CallGetNested ==
    /\ c_constructed /\ c_raised = "none" /\ c_call = None /\ c_saved = None
    /\ \E path \in Paths, default \in Defaults :
          /\ c_call' = [fn |-> "get_nested", path |-> Str(path), default |-> default,
                        config |-> c_config]
          /\ c_result' = get_nested(c_config, Str(path), default)
    /\ UNCHANGED <<c_file, c_written, c_constructed, c_raised, c_config,
                   c_update, c_saved, varsT, varsX, varsM, varsP, varsF, varsK, varsZ, varsL>>

\* a call config_manager.update(section, parameter, value), once, before the
\* configuration is read or saved
UpdateValues == {Num(7)}
CallUpdate ==
    /\ c_constructed /\ c_raised = "none"
    /\ c_update = None /\ c_call = None /\ c_saved = None
    /\ \E i \in DOMAIN ConfigKeys, j \in DOMAIN ConfigKeys, value \in UpdateValues :
          LET updated == update(c_config, ConfigKeys[i], ConfigKeys[j], value)
          IN  /\ c_config' = updated.config
              /\ c_update' = [section |-> ConfigKeys[i], parameter |-> ConfigKeys[j],
                              value |-> value, returned |-> updated.returned,
                              before |-> c_config]
    /\ UNCHANGED <<c_file, c_written, c_constructed, c_raised, c_call, c_result, c_saved,
                   varsT, varsX, varsM, varsP, varsF, varsK, varsZ, varsL>>

\* a call config_manager.save_config(config_path): to self.config_path when
\* config_path is None, to another file otherwise
CallSaveConfig ==
    /\ c_constructed /\ c_raised = "none"
    /\ c_saved = None /\ c_call = None
    /\ \E to_config_path \in BOOLEAN, opened \in BOOLEAN :
       \E written \in IF opened THEN 0 .. Len(JsonDump(c_config)) ELSE {0} :
          LET saved == save_config(c_config, IF to_config_path THEN c_file ELSE AbsentFile,
                                   opened, written)
          IN  /\ c_file' = IF to_config_path THEN saved.file ELSE c_file
              /\ c_saved' = [to_config_path |-> to_config_path, file |-> saved.file,
                             returned |-> saved.returned]
    /\ UNCHANGED <<c_written, c_constructed, c_raised, c_config, c_call, c_result, c_update,
                   varsT, varsX, varsM, varsP, varsF, varsK, varsZ, varsL>>

\* the operations checked on their own have not been called
IdleOther == IdleK /\ IdleZ /\ IdleL /\ IdleC

-----------------------------------------------------------------------------
(* Specifications *)

NextT ==
    \/ CreateCleanRasters
    \/ GeneratePath
    \/ ExtractTimeSeries
    \/ MovingAverages
    \/ CombineTimeSeries
    \/ ExtractCleanTimeSeries
    \/ CombineCleanTimeSeries

\* stage 6, from its arguments and the feature rasters it finds
InitTemporal == InitT /\ IdleX /\ IdleM /\ IdleP /\ IdleF /\ IdleOther
SpecTemporal == InitTemporal /\ [][NextT]_vars

NextX == ExtractAlongPath

\* extract_raster_along_path, from its arguments
InitExtract == InitX /\ IdleT /\ IdleM /\ IdleP /\ IdleF /\ IdleOther
SpecExtract == InitExtract /\ [][NextX]_vars

-----------------------------------------------------------------------------
(* Properties of stage 6 and of the path functions *)

\* the value a raster has at a path point, None where it has no data there
ValueAt(r, p) ==
    LET res == Identify(r, p[1], p[2])
    IN  IF HasBand1(res) /\ res.results[1] # None
           /\ (r.nodata = None \/ ~PyEq(res.results[1], r.nodata))
        THEN res.results[1]
        ELSE None

\* whether a CSV holds one row, with a value, for each of the n path points
GapFree(rows, n) ==
    /\ Len(rows) = n
    /\ \A k \in 1 .. n : rows[k].Index = CsvText(Num(k - 1))

\* C1: after stage 6 has exited with status 0, every feature with a clean raster
\* has a clean time series holding one row with a value for each of the
\* num_points path points, and so has the clean combined CSV.
C1_CleanSeriesGapFree ==
    (pc6 = "done" /\ exit6 = "0") =>
        /\ \A f \in DOMAIN clean_feature_paths :
              /\ f \in DOMAIN clean_time_series_paths
              /\ GapFree(clean_time_series_paths[f].rows, num_points)
              /\ \A k \in 1 .. Len(clean_time_series_paths[f].rows) :
                    clean_time_series_paths[f].rows[k].Value # EmptyText
        /\ DOMAIN clean_feature_paths # {} =>
              /\ clean_combined_path # None
              /\ GapFree(clean_combined_path.rows, num_points)
              /\ \A k \in 1 .. Len(clean_combined_path.rows) :
                    \A f \in DOMAIN clean_feature_paths :
                        /\ f \in clean_combined_path.fieldnames
                        /\ clean_combined_path.rows[k].values[f] # EmptyText

\* C2: in every row of combined_time_series.csv each feature column holds the
\* value the feature's raster has at the path point the row's Index names.
C2_CombinedRowsAligned ==
    combined_path # None =>
        \A k \in 1 .. Len(combined_path.rows) :
            LET row == combined_path.rows[k]
                i == ParseFloat(row.Index).num
            IN  /\ row.X = CsvText(Num(path_points[i + 1][1]))
                /\ row.Y = CsvText(Num(path_points[i + 1][2]))
                /\ \A f \in combined_path.fieldnames :
                      row.values[f] = CsvText(ValueAt(feature_rasters[f], path_points[i + 1]))

\* the path has been generated from the first feature raster
PathGenerated == pc6 \notin {"idle", "start", "path"} /\ DOMAIN feature_rasters # {}
ReferenceLayer == feature_rasters[SetMin(DOMAIN feature_rasters)]

\* C3: when the sampling finds valid data, every point of the generated path
\* lies on a pixel of the raster that holds a value other than NoData.
C3_PathOnValidCells ==
    (PathGenerated /\ error6 = "none" /\ ValidSamples(ReferenceLayer) # {}) =>
        \A k \in 1 .. Len(path_points) :
            ValueAt(ReferenceLayer, path_points[k]) # None

\* C4: for every direction and every num_points >= 1 the path function returns
\* exactly num_points points and raises nothing.
C4_PathHasNumPoints ==
    (PathGenerated /\ num_points >= 1) =>
        /\ error6 = "none"
        /\ Len(path_points) = num_points

\* C5: the CSV of extract_raster_along_path has one row for exactly the path
\* points whose sampled value is present and is not the NoData value, in path
\* order, each with the point's 0-based position in the path as Index, its
\* coordinates and its value; any other point has no row.
C5_ExtractKeepsValidPointsInOrder ==
    x_ret # None =>
        LET rows == x_csv.rows
            kept == { k \in 1 .. Len(x_path) : ValueAt(x_raster, x_path[k]) # None }
            index(j) == ParseFloat(rows[j].Index).num
        IN  /\ Len(rows) = Cardinality(kept)
            /\ \A j \in 1 .. Len(rows) :
                  /\ index(j) + 1 \in kept
                  /\ rows[j].X = CsvText(Num(x_path[index(j) + 1][1]))
                  /\ rows[j].Y = CsvText(Num(x_path[index(j) + 1][2]))
                  /\ rows[j].Value = CsvText(ValueAt(x_raster, x_path[index(j) + 1]))
            /\ \A j \in 1 .. Len(rows) - 1 : index(j) < index(j + 1)

\* C5 witness: a call that dropped a NoData point, a point outside the extent
\* and a point whose identify failed, and wrote a row whose Index is not its
\* position among the rows.
C5_Witness ==
    /\ x_ret # None
    /\ \E k \in 1 .. Len(x_path) :
          ~Identify(x_raster, x_path[k][1], x_path[k][2]).isValid
    /\ \E k \in 1 .. Len(x_path) :
          LET res == Identify(x_raster, x_path[k][1], x_path[k][2])
          IN  HasBand1(res) /\ res.results[1] # None /\ x_raster.nodata # None
              /\ PyEq(res.results[1], x_raster.nodata)
    /\ \E j \in 1 .. Len(x_csv.rows) : x_csv.rows[j].Index # CsvText(Num(j - 1))

NextM ==
    \/ CreateRidgeMask
    \/ CreateValleyMask
    \/ CreateErosionRiskMask
    \/ CreateCombinedMask
    \/ CreateMask

\* the mask functions of stage 3, from their arguments
InitMask == InitM /\ IdleT /\ IdleX /\ IdleP /\ IdleF /\ IdleOther
SpecMask == InitMask /\ [][NextM]_vars

-----------------------------------------------------------------------------
(* Properties of the masks *)

\* whether a pixel value satisfies a condition against a threshold in
\* hundredths; NaN satisfies nothing and nothing is above or below NaN
Satisfies(v, condition, threshold100) ==
    /\ IsNum(v) /\ IsNum(threshold100)
    /\ IF condition = "greater" THEN Hundred * v.num > threshold100.num
       ELSE Hundred * v.num < threshold100.num

\* the threshold a call uses for input 1 and input 2
CallThreshold1 == ThresholdUsed(m_input1, m_call.threshold1, m_call.percentile1)
CallThreshold2 == ThresholdUsed(m_input2, m_call.threshold2, m_call.percentile2)

\* the valid pixels of an input: those that do not hold its NoData value
NotNoData(r) == { k \in 1 .. Len(r.data) : r.data[k] # r.nodata }

\* the i-th smallest of the numbers at the pixels S, by counting
OrderStatistic(r, S, i) ==
    CHOOSE v \in { r.data[k].num : k \in S } :
        /\ Cardinality({ k \in S : r.data[k].num < v }) < i
        /\ Cardinality({ k \in S : r.data[k].num <= v }) >= i

\* the q-th percentile of the numbers at the pixels S, in hundredths: between
\* the two closest ranks, in proportion to the distance from the lower one
PercentileOf(r, S, q) ==
    LET rank == (Cardinality(S) - 1) * q
        lower == OrderStatistic(r, S, rank \div Hundred + 1)
    IN  IF rank % Hundred = 0 THEN Hundred * lower
        ELSE Hundred * lower
             + (rank % Hundred) * (OrderStatistic(r, S, rank \div Hundred + 2) - lower)

\* the threshold of an input as stated: the one given, else the percentile of
\* the values of its valid pixels (NaN when one of them is NaN), 0 without
\* valid pixels
StatedThreshold(r, threshold, percentile) ==
    IF threshold # None THEN Num(Hundred * threshold.num)
    ELSE IF NotNoData(r) = {} THEN Num(0)
    ELSE IF \E k \in NotNoData(r) : r.data[k] = NaN THEN NaN
    ELSE Num(PercentileOf(r, NotNoData(r), percentile))

\* C6: every pixel of the mask written by create_combined_mask_with_gdal is 0
\* or 1, and is 1 exactly when the pixel is not NoData in either input and both
\* inputs satisfy their condition against their threshold, where a threshold
\* left as None is the given percentile of the input's valid values, 0 if it
\* has none.
C6_CombinedMaskIsConjunction ==
    (m_call # None /\ m_call.fn # "create_mask_with_gdal") =>
        \A k \in 1 .. MaskPixels :
            /\ m_mask[k] \in {0, 1}
            /\ m_mask[k] = 1 <=>
                  /\ k \in NotNoData(m_input1) /\ k \in NotNoData(m_input2)
                  /\ Satisfies(m_input1.data[k], m_call.condition1,
                               StatedThreshold(m_input1, m_call.threshold1, m_call.percentile1))
                  /\ Satisfies(m_input2.data[k], m_call.condition2,
                               StatedThreshold(m_input2, m_call.threshold2, m_call.percentile2))

\* C7: create_ridge_mask sets a pixel only where TPI and curvature are both
\* above their thresholds, create_valley_mask only where both are below.
C7_RidgeHighValleyLow ==
    (m_call # None /\ m_call.fn \in {"create_ridge_mask", "create_valley_mask"}) =>
        \A k \in 1 .. MaskPixels :
            m_mask[k] = 1 =>
                IF m_call.fn = "create_ridge_mask"
                THEN /\ Satisfies(m_input1.data[k], "greater", CallThreshold1)
                     /\ Satisfies(m_input2.data[k], "greater", CallThreshold2)
                ELSE /\ Satisfies(m_input1.data[k], "less", CallThreshold1)
                     /\ Satisfies(m_input2.data[k], "less", CallThreshold2)

NextP ==
    \/ Stage3DummyMasks
    \/ Stage3CreateMasks
    \/ Stage4Main
    \/ Stage5Main

\* stage 3, then stages 4 and 5 on its output directory
InitPipeline == InitP /\ IdleT /\ IdleX /\ IdleM /\ IdleF /\ IdleOther
SpecPipeline == InitPipeline /\ [][NextP]_vars

-----------------------------------------------------------------------------
(* Properties of the pipeline *)

\* C8: after stage 3 wrote the dummy masks and exited 0, a run of stage 4 and a
\* run of stage 5 on its output directory find mask files and do not exit 1 for
\* having found none.
C8_DummyMasksLetPipelineContinue ==
    (p_branch3 = "dummy" /\ p_exit3 = "0") =>
        /\ p_exit4 # "running" =>
              (p_existing_masks # {} /\ p_log4 # "No mask files found")
        /\ p_exit5 # "running" =>
              (p_mask_paths # {} /\ p_log5 # "No mask files found")

NextF ==
    \/ LoadDem
    \/ ProcessFeature
    \/ SpectralEntropy
    \/ FinishFeatures
    \/ Stage2Start
    \/ Stage2Finish

\* main of stage 2 and its call of extract_basic_terrain_features
InitFeatures == InitF /\ IdleT /\ IdleX /\ IdleM /\ IdleP /\ IdleOther
SpecFeatures == InitFeatures /\ [][NextF]_vars

-----------------------------------------------------------------------------
(* Properties of stage 2 *)

\* C9: for a DEM that loads as a valid raster layer, the call writes
\* spectral_entropy_scale3.tif, spectral_entropy_scale4.tif and
\* spectral_entropy_scale5.tif, and each of the three is in the returned
\* feature paths and in feature_list.json.
C9_SpectralEntropyWrittenAndListed ==
    (f_ret # None /\ f_dem.valid) =>
        \A k \in DOMAIN EntropyScales :
            /\ FeaturePath(EntropyName(EntropyScales[k])) \in f_files
            /\ EntropyName(EntropyScales[k]) \in f_ret.paths
            /\ EntropyName(EntropyScales[k]) \in f_feature_list.features

ParamsWithoutOutput(params) == [k \in DOMAIN params \ {"OUTPUT"} |-> params[k]]
RunsProducing(name) ==
    { i \in DOMAIN f_runs : "OUTPUT" \in DOMAIN f_runs[i].params
                            /\ f_runs[i].params.OUTPUT = FeaturePath(name) }

\* C10: the algorithm and parameters of the runs that produce curvature.tif and
\* planform_curvature.tif differ, other than in the output path, from those of
\* the run that produces slope.tif.
C10_CurvatureDistinctFromSlope ==
    \A i \in RunsProducing("curvature") \cup RunsProducing("planform_curvature") :
        \A j \in RunsProducing("slope") :
            \/ f_runs[i].algorithm # f_runs[j].algorithm
            \/ ParamsWithoutOutput(f_runs[i].params) # ParamsWithoutOutput(f_runs[j].params)

NextK == CreateCleanRaster

\* one call of create_clean_raster_for_sonification
InitClean == InitK /\ IdleT /\ IdleX /\ IdleM /\ IdleP /\ IdleF /\ IdleZ /\ IdleL /\ IdleC
SpecClean == InitClean /\ [][NextK]_vars

-----------------------------------------------------------------------------
(* Properties of create_clean_raster_for_sonification *)

\* the pixels GDAL treats as NoData: those equal to the band's NoData value,
\* NaN pixels when that value is NaN
NoDataPixels(r) == { c \in DOMAIN r.cells : r.nodata # None /\ r.cells[c] = r.nodata }

\* C11: the clean raster has the dimensions, the NoData value and the NoData
\* pixels of the input, and equals the input at every pixel except the valid
\* pixels that are NaN or infinite, which hold default_value.
C11_CleanRasterFrame ==
    k_clean # None =>
        /\ k_clean.w = k_raster.w /\ k_clean.h = k_raster.h
        /\ k_clean.nodata = k_raster.nodata
        /\ NoDataPixels(k_clean) = NoDataPixels(k_raster)
        /\ \A c \in DOMAIN k_raster.cells :
              k_clean.cells[c] =
                 IF c \notin NoDataPixels(k_raster) /\ ~IsFinite(k_raster.cells[c])
                 THEN Num(k_default) ELSE k_raster.cells[c]

NextZ ==
    \/ ZonalFindInputs
    \/ ZonalProcessMask
    \/ ZonalSaveMetadata

\* one run of stage 4
InitZonal == InitZ /\ IdleT /\ IdleX /\ IdleM /\ IdleP /\ IdleF /\ IdleK /\ IdleL /\ IdleC
SpecZonal == InitZonal /\ [][NextZ]_vars

-----------------------------------------------------------------------------
(* Properties of stage 4 *)

\* C13: when stage 4 has written zonal_statistics_metadata.json, every mask
\* that exists and vectorizes has an entry there which records a statistics
\* file for every feature raster that loads.
C13_ZonalStatisticsRecorded ==
    z_metadata # None =>
        \A mask_name \in DOMAIN z_masks :
            z_masks[mask_name] = "zone_valid" =>
                \A f \in ZonalFeatures :
                    z_features[f] = "raster" =>
                        \E entry \in z_metadata.zones :
                            entry.mask_name = mask_name /\ f \in entry.statistics

NextL ==
    \/ Stage1LoadConfig
    \/ Stage1Prepare
    \/ Stage1Reproject
    \/ Stage1Statistics

\* one run of stage 1
InitLoad == InitL /\ IdleT /\ IdleX /\ IdleM /\ IdleP /\ IdleF /\ IdleK /\ IdleZ /\ IdleC
SpecLoad == InitLoad /\ [][NextL]_vars

-----------------------------------------------------------------------------
(* Properties of stage 1 *)

\* whether the configuration is a mapping with a top-level 'epsg_code'
HasEpsgCode(config) ==
    IsDict(config) /\ \E i \in DOMAIN config.dict : config.dict[i][1] = EpsgCodeKey
EpsgCodeOf(config) ==
    config.dict[CHOOSE i \in DOMAIN config.dict : config.dict[i][1] = EpsgCodeKey][2]

\* C14 as stated: the target CRS of the warp is --epsg if it is given,
\* otherwise the configuration's top-level 'epsg_code' if it is present,
\* otherwise the source CRS, the run then being a format conversion.
C14_TargetCrsAsStated ==
    l_warp # None =>
        IF l_epsg # None THEN l_warp.TARGET_CRS = MakeCrs(l_epsg)
        ELSE IF HasEpsgCode(l_config)
        THEN l_warp.TARGET_CRS = MakeCrs(EpsgCodeOf(l_config))
        ELSE l_warp.TARGET_CRS = l_input.crs /\ l_warp.mode = "convert"

\* C14: the target CRS of the warp is --epsg if it is given and not empty,
\* otherwise the configuration's top-level 'epsg_code' if it is present and
\* neither null nor empty, otherwise the source CRS, the run then being a
\* format conversion.
C14_TargetCrsChoice ==
    l_warp # None =>
        IF Truthy(l_epsg) THEN l_warp.TARGET_CRS = MakeCrs(l_epsg)
        ELSE IF HasEpsgCode(l_config) /\ Truthy(EpsgCodeOf(l_config))
        THEN l_warp.TARGET_CRS = MakeCrs(EpsgCodeOf(l_config))
        ELSE l_warp.TARGET_CRS = l_input.crs /\ l_warp.mode = "convert"

\* C14 witness: a warp to the configuration's code, which differs from the
\* source CRS, after an empty --epsg.
C14_Witness ==
    /\ l_warp # None
    /\ l_epsg = Str(<< >>)
    /\ HasEpsgCode(l_config) /\ Truthy(EpsgCodeOf(l_config))
    /\ l_warp.mode = "reproject"

\* C15: stage 1 exits 0 only with an output file of at least 1000 bytes, and
\* exits 1 when the input file does not exist, when the warp raised, and when
\* the output file is absent or smaller than 1000 bytes.
C15_ExitStatus ==
    /\ l_exit = "0" => (l_output # None /\ l_output.num >= MinSizeBytes)
    /\ l_pc = "done" =>
          /\ (l_input # None /\ ~l_input.exists) => l_exit = "1"
          /\ (l_warp # None /\ l_warp.raised) => l_exit = "1"
          /\ (l_warp # None /\ (l_output = None \/ l_output.num < MinSizeBytes)) => l_exit = "1"

\* C15 witness: an exit 0 with an output file of exactly 1000 bytes.
C15_Witness ==
    l_exit = "0" /\ l_output = Num(MinSizeBytes) /\ l_warp # None

NextC ==
    \/ Construct
    \/ CallGet
    \/ CallGetNested
    \/ CallUpdate
    \/ CallSaveConfig

\* a ConfigManager built on a configuration file, and the calls made on it
InitConfig == InitC /\ IdleT /\ IdleX /\ IdleM /\ IdleP /\ IdleF /\ IdleK /\ IdleZ /\ IdleL
SpecConfig == InitConfig /\ [][NextC]_vars

-----------------------------------------------------------------------------
(* Properties of ConfigManager *)

\* C16: the constructor does not raise; config is the default configuration
\* when the file is absent, unreadable or not a JSON text, and the value the
\* file holds otherwise.
C16_LoadNeverRaises ==
    c_constructed =>
        /\ c_raised = "none"
        /\ c_update = None =>
              c_config = IF c_written # None /\ c_written.variant = "whole"
                         THEN c_written.value ELSE DefaultConfig

\* C16 witness: a manager built on a JSON text that lost its last token.
C16_Witness ==
    /\ c_constructed /\ c_update = None /\ c_saved = None
    /\ c_written # None /\ c_written.variant = "cut_last"
    /\ Len(c_file.tokens) > 1
    /\ c_config = DefaultConfig

\* the mapping semantics the claim refers to
HasKey(v, key) == IsDict(v) /\ \E i \in DOMAIN v.dict : v.dict[i][1] = key
ItemOf(v, key) == v.dict[CHOOSE i \in DOMAIN v.dict : v.dict[i][1] = key][2]
RECURSIVE Follow(_, _, _, _)
Follow(v, keys, k, default) ==
    IF k > Len(keys) THEN v
    ELSE IF HasKey(v, keys[k]) THEN Follow(ItemOf(v, keys[k]), keys, k + 1, default)
    ELSE default
\* the keys of a path: what stands before its first dot, between two dots
\* that follow each other, and after its last dot
DotsOf(path) == {i \in DOMAIN path.str : path.str[i] = "."}
NthDot(path, n) ==
    IF n = 0 THEN 0
    ELSE IF n > Cardinality(DotsOf(path)) THEN Len(path.str) + 1
    ELSE CHOOSE i \in DotsOf(path) : Cardinality({j \in DotsOf(path) : j < i}) = n - 1
KeysOf(path) ==
    [k \in 1 .. Cardinality(DotsOf(path)) + 1 |->
        Str(SubSeq(path.str, NthDot(path, k - 1) + 1, NthDot(path, k) - 1))]

\* C17: get and get_nested return the stored value when every key on the way
\* is a key of a mapping and default otherwise, do not raise and leave config
\* as it was loaded.
C17_GetReturnsValueOrDefault ==
    c_call # None =>
        /\ "returned" \in DOMAIN c_result
        /\ c_config = c_call.config
        /\ c_result.returned =
              IF c_call.fn = "get"
              THEN Follow(c_call.config,
                          IF c_call.parameter = None THEN <<c_call.section>>
                          ELSE <<c_call.section, c_call.parameter>>,
                          1, c_call.default)
              ELSE Follow(c_call.config, KeysOf(c_call.path), 1, c_call.default)

\* C17 witness: a get_nested call that meets a str on its path, of which the
\* next key is a substring, and returns the default.
C17_Witness ==
    /\ c_call # None /\ c_call.fn = "get_nested"
    /\ c_call.path = Str(<<"a", ".", "b">>)
    /\ c_call.default = Num(7)
    /\ HasKey(c_config, Str(<<"a">>))
    /\ ItemOf(c_config, Str(<<"a">>)) = Str(<<"a", "b">>)
    /\ c_result = [returned |-> Num(7)]

=============================================================================
